---------------------------- MODULE Spec2Model ----------------------------
(***************************************************************************)
(* Standard script classification, construction and analysis of the       *)
(* txscript package (src/txscript/standard.go).                            *)
(*                                                                         *)
(* Scripts are sequences of bytes (0..255), 1-indexed: script[i] of the Go *)
(* code is script[i+1] here.  A nil slice is the value Nil.  A panic of    *)
(* the Go runtime (index out of range) is the result value Panic.          *)
(***************************************************************************)
EXTENDS Integers, Sequences, FiniteSets, TLC

(***************************************************************************)
(* Bounds of the checked input space.                                      *)
(***************************************************************************)
MaxShortLen == 3
MaxKeys == 2

(***************************************************************************)
(* Program constants.                                                      *)
(***************************************************************************)
MaxDataCarrierSize == 256

NonStandardTy == 0
PubKeyTy == 1
PubKeyHashTy == 2
ScriptHashTy == 3
MultiSigTy == 4
NullDataTy == 5
StakeSubmissionTy == 6
StakeGenTy == 7
StakeRevocationTy == 8
StakeSubChangeTy == 9
PubkeyAltTy == 10
PubkeyHashAltTy == 11

DefaultScriptVersion == 0
MaxPubKeysPerMultiSig == 20

STEcdsaSecp256k1 == 0
STEd25519 == 1
STSchnorrSecp256k1 == 2

OP_0 == 0
OP_DATA_1 == 1
OP_DATA_20 == 20
OP_DATA_32 == 32
OP_DATA_33 == 33
OP_DATA_65 == 65
OP_DATA_75 == 75
OP_PUSHDATA1 == 76
OP_PUSHDATA2 == 77
OP_PUSHDATA4 == 78
OP_1NEGATE == 79
OP_1 == 81
OP_2 == 82
OP_16 == 96
OP_IF == 99
OP_ELSE == 103
OP_ENDIF == 104
OP_RETURN == 106
OP_DROP == 117
OP_DUP == 118
OP_SIZE == 130
OP_EQUAL == 135
OP_EQUALVERIFY == 136
OP_HASH160 == 169
OP_CHECKSIG == 172
OP_CHECKSIGVERIFY == 173
OP_CHECKMULTISIG == 174
OP_CHECKMULTISIGVERIFY == 175
OP_CHECKLOCKTIMEVERIFY == 177
OP_SSTX == 186
OP_SSGEN == 187
OP_SSRTX == 188
OP_SSTXCHANGE == 189
OP_CHECKSIGALT == 190
OP_CHECKSIGALTVERIFY == 191
OP_SHA256 == 192

(***************************************************************************)
(* Values of the Go runtime.                                               *)
(***************************************************************************)
Nil == << -1 >>
Panic == "panic"

Rep(n, b) == [i \in 1..n |-> b]
Slice(s, from, to) == SubSeq(s, from + 1, to)

(***************************************************************************)
(* Opcode table, tokenizer and parser.                                     *)
(***************************************************************************)
opcodeLength(op) ==
    IF op = OP_0 THEN 1
    ELSE IF op <= OP_DATA_75 THEN op + 1
    ELSE IF op = OP_PUSHDATA1 THEN -1
    ELSE IF op = OP_PUSHDATA2 THEN -2
    ELSE IF op = OP_PUSHDATA4 THEN -4
    ELSE 1

isSmallInt(op) == op = OP_0 \/ (op >= OP_1 /\ op <= OP_16)

\* The subtraction is done on bytes: it wraps for an opcode under OP_1.
asSmallInt(op) == IF op = OP_0 THEN 0 ELSE (op + 256 - (OP_1 - 1)) % 256

isStrictPubKeyEncoding(pubKey) ==
    \/ Len(pubKey) = 33 /\ (pubKey[1] = 2 \/ pubKey[1] = 3)
    \/ Len(pubKey) = 65 /\ pubKey[1] = 4

RECURSIVE littleEndian(_)
littleEndian(bytes) ==
    IF bytes = <<>> THEN 0 ELSE bytes[1] + 256 * littleEndian(Tail(bytes))

\* int32(...) of the unsigned little-endian length read by the tokenizer: a
\* four-byte length with the top bit set is negative (any negative value is
\* refused, -1 stands for all of them).
asInt32(bytes) ==
    IF Len(bytes) = 4 /\ bytes[4] >= 128 THEN -1 ELSE littleEndian(bytes)

MakeScriptTokenizer(scriptVersion, script) ==
    [script |-> script, offset |-> 0, op |-> -1, data |-> Nil,
     err |-> (scriptVersion # 0)]

TokenizerDone(t) == t.err \/ t.offset >= Len(t.script)

\* One step of the tokenizer: the tokenizer after the call and the call's
\* boolean result.
TokenizerNext(t) ==
    IF TokenizerDone(t) THEN [tok |-> t, ok |-> FALSE]
    ELSE
      LET op == t.script[t.offset + 1]
          n == opcodeLength(op)
          rest == Len(t.script) - t.offset
      IN  IF n = 1
          THEN [tok |-> [t EXCEPT !.offset = @ + 1, !.op = op, !.data = Nil],
                ok |-> TRUE]
          ELSE IF n > 1
          THEN IF rest < n
               THEN [tok |-> [t EXCEPT !.err = TRUE], ok |-> FALSE]
               ELSE [tok |-> [t EXCEPT !.offset = @ + n, !.op = op,
                                !.data = Slice(t.script, t.offset + 1, t.offset + n)],
                     ok |-> TRUE]
          ELSE IF rest - 1 < -n
               THEN [tok |-> [t EXCEPT !.err = TRUE], ok |-> FALSE]
               ELSE LET dataLen == asInt32(
                                     Slice(t.script, t.offset + 1, t.offset + 1 - n))
                        avail == rest - 1 + n
                    IN  IF dataLen > avail \/ dataLen < 0
                        THEN [tok |-> [t EXCEPT !.err = TRUE], ok |-> FALSE]
                        ELSE [tok |-> [t EXCEPT !.offset = @ + 1 - n + dataLen,
                                         !.op = op,
                                         !.data = Slice(t.script, t.offset + 1 - n,
                                                        t.offset + 1 - n + dataLen)],
                              ok |-> TRUE]

RECURSIVE parseFrom(_, _)
parseFrom(t, pops) ==
    LET r == TokenizerNext(t)
    IN  IF r.ok
        THEN parseFrom(r.tok, Append(pops, [opcode |-> r.tok.op, data |-> r.tok.data]))
        ELSE [err |-> r.tok.err, pops |-> IF r.tok.err THEN <<>> ELSE pops]

\* parseScript: the decoded operations of a version 0 script, or an error.
parseScript(script) == parseFrom(MakeScriptTokenizer(0, script), <<>>)

checkScriptParses(scriptVersion, script) ==
    parseFrom(MakeScriptTokenizer(scriptVersion, script), <<>>).err


isPushOnly(pops) == \A i \in 1..Len(pops) : pops[i].opcode <= OP_16

RECURSIVE sigOpsFrom(_, _)
sigOpsFrom(pops, i) ==
    IF i > Len(pops) THEN 0
    ELSE LET op == pops[i].opcode
             n == IF op \in {OP_CHECKSIG, OP_CHECKSIGVERIFY,
                             OP_CHECKSIGALT, OP_CHECKSIGALTVERIFY}
                  THEN 1
                  ELSE IF op \in {OP_CHECKMULTISIG, OP_CHECKMULTISIGVERIFY}
                  THEN IF i > 1 /\ pops[i - 1].opcode >= OP_1
                              /\ pops[i - 1].opcode <= OP_16
                       THEN asSmallInt(pops[i - 1].opcode)
                       ELSE MaxPubKeysPerMultiSig
                  ELSE 0
         IN  n + sigOpsFrom(pops, i + 1)

\* getSigOpCount(pops, precise) with precise = true, as standard.go calls it.
getSigOpCount(pops) == sigOpsFrom(pops, 1)

(***************************************************************************)
(* Template matchers.                                                      *)
(***************************************************************************)
scriptClassToName ==
    << "nonstandard", "pubkey", "pubkeyhash", "scripthash", "multisig",
       "nulldata", "stakesubmission", "stakegen", "stakerevoke", "sstxchange",
       "pubkeyalt", "pubkeyhashalt" >>

\* ScriptClass.String: scriptClassToName[t] is an index expression, which
\* panics when t is not below the length of the table.
String(t) ==
    IF t > Len(scriptClassToName) \/ t < 0 THEN "Invalid"
    ELSE IF t + 1 \in DOMAIN scriptClassToName THEN scriptClassToName[t + 1]
    ELSE Panic

\* One pass of the key loop of extractMultisigScriptDetails: the tokenizer
\* when the loop ends and the number of public keys counted.
RECURSIVE multisigKeyLoop(_, _, _)
multisigKeyLoop(t, numPubKeys, pubKeys) ==
    LET r == TokenizerNext(t)
    IN  IF ~r.ok THEN [tok |-> r.tok, numPubKeys |-> numPubKeys, pubKeys |-> pubKeys]
        ELSE IF ~isStrictPubKeyEncoding(r.tok.data)
        THEN [tok |-> r.tok, numPubKeys |-> numPubKeys, pubKeys |-> pubKeys]
        ELSE multisigKeyLoop(r.tok, numPubKeys + 1, Append(pubKeys, r.tok.data))

noMultiSigDetails ==
    [requiredSigs |-> 0, numPubKeys |-> 0, pubKeys |-> Nil, valid |-> FALSE]

\* extractMultisigScriptDetails without the comparison of the key-count
\* opcode with the number of keys found.
extractMultisigScriptDetails_NoCountCheck(scriptVersion, script, extractPubKeys) ==
    IF scriptVersion # 0 THEN noMultiSigDetails
    ELSE IF Len(script) < 3 \/ script[Len(script)] # OP_CHECKMULTISIG
    THEN noMultiSigDetails
    ELSE
      LET first == TokenizerNext(MakeScriptTokenizer(scriptVersion, script))
      IN  IF ~first.ok \/ ~isSmallInt(first.tok.op) THEN noMultiSigDetails
          ELSE
            LET loop == multisigKeyLoop(first.tok, 0, <<>>)
                op == loop.tok.op
            IN  IF TokenizerDone(loop.tok) THEN noMultiSigDetails
                ELSE IF ~isSmallInt(op) THEN noMultiSigDetails
                ELSE IF Len(loop.tok.script) - loop.tok.offset # 1
                THEN noMultiSigDetails
                ELSE [requiredSigs |-> asSmallInt(first.tok.op),
                      numPubKeys |-> loop.numPubKeys,
                      pubKeys |-> IF extractPubKeys THEN loop.pubKeys ELSE Nil,
                      valid |-> TRUE]

extractMultisigScriptDetails(scriptVersion, script, extractPubKeys) ==
    IF scriptVersion # 0 THEN noMultiSigDetails
    ELSE IF Len(script) < 3 \/ script[Len(script)] # OP_CHECKMULTISIG
    THEN noMultiSigDetails
    ELSE
      LET first == TokenizerNext(MakeScriptTokenizer(scriptVersion, script))
      IN  IF ~first.ok \/ ~isSmallInt(first.tok.op) THEN noMultiSigDetails
          ELSE
            LET loop == multisigKeyLoop(first.tok, 0, <<>>)
                op == loop.tok.op
            IN  IF TokenizerDone(loop.tok) THEN noMultiSigDetails
                ELSE IF ~isSmallInt(op) \/ asSmallInt(op) # loop.numPubKeys
                THEN noMultiSigDetails
                ELSE IF Len(loop.tok.script) - loop.tok.offset # 1
                THEN noMultiSigDetails
                ELSE [requiredSigs |-> asSmallInt(first.tok.op),
                      numPubKeys |-> loop.numPubKeys,
                      pubKeys |-> IF extractPubKeys THEN loop.pubKeys ELSE Nil,
                      valid |-> TRUE]

isMultisigScript(scriptVersion, script) ==
    extractMultisigScriptDetails(scriptVersion, script, FALSE).valid

extractCompressedPubKey(script) ==
    IF /\ Len(script) = 35
       /\ script[35] = OP_CHECKSIG
       /\ script[1] = OP_DATA_33
       /\ (script[2] = 2 \/ script[2] = 3)
    THEN Slice(script, 1, 34)
    ELSE Nil

extractUncompressedPubKey(script) ==
    IF /\ Len(script) = 67
       /\ script[67] = OP_CHECKSIG
       /\ script[1] = OP_DATA_65
       /\ script[2] = 4
    THEN Slice(script, 1, 66)
    ELSE Nil

extractPubKey(script) ==
    IF extractCompressedPubKey(script) # Nil
    THEN extractCompressedPubKey(script)
    ELSE extractUncompressedPubKey(script)

isPubKeyScript(script) == extractPubKey(script) # Nil

extractPubKeyAltDetails(script) ==
    IF Len(script) < 3 \/ script[Len(script)] # OP_CHECKSIGALT
    THEN [pk |-> Nil, sigType |-> 0]
    ELSE IF /\ Len(script) = 35
            /\ script[1] = OP_DATA_32
            /\ isSmallInt(script[34])
            /\ asSmallInt(script[34]) = STEd25519
    THEN [pk |-> Slice(script, 1, 33), sigType |-> STEd25519]
    ELSE IF /\ Len(script) = 36
            /\ script[1] = OP_DATA_33
            /\ isSmallInt(script[35])
            /\ asSmallInt(script[35]) = STSchnorrSecp256k1
            /\ isStrictPubKeyEncoding(Slice(script, 1, 34))
    THEN [pk |-> Slice(script, 1, 34), sigType |-> STSchnorrSecp256k1]
    ELSE [pk |-> Nil, sigType |-> 0]

isPubKeyAltScript(script) == extractPubKeyAltDetails(script).pk # Nil

\* extractPubKeyHash without the check of the push opcode.
extractPubKeyHash_NoPushCheck(script) ==
    IF /\ Len(script) = 25
       /\ script[1] = OP_DUP
       /\ script[2] = OP_HASH160
       /\ script[24] = OP_EQUALVERIFY
       /\ script[25] = OP_CHECKSIG
    THEN Slice(script, 3, 23)
    ELSE Nil

extractPubKeyHash(script) ==
    IF /\ Len(script) = 25
       /\ script[1] = OP_DUP
       /\ script[2] = OP_HASH160
       /\ script[3] = OP_DATA_20
       /\ script[24] = OP_EQUALVERIFY
       /\ script[25] = OP_CHECKSIG
    THEN Slice(script, 3, 23)
    ELSE Nil

isPubKeyHashScript(script) == extractPubKeyHash(script) # Nil

isStandardAltSignatureType(op) ==
    IF ~isSmallInt(op) THEN FALSE
    ELSE asSmallInt(op) = STEd25519 \/ asSmallInt(op) = STSchnorrSecp256k1

extractPubKeyHashAltDetails(script) ==
    IF /\ Len(script) = 26
       /\ script[1] = OP_DUP
       /\ script[2] = OP_HASH160
       /\ script[3] = OP_DATA_20
       /\ script[24] = OP_EQUALVERIFY
       /\ isStandardAltSignatureType(script[25])
       /\ script[26] = OP_CHECKSIGALT
    THEN [pk |-> Slice(script, 3, 23), sigType |-> asSmallInt(script[25])]
    ELSE [pk |-> Nil, sigType |-> 0]

isPubKeyHashAltScript(script) == extractPubKeyHashAltDetails(script).pk # Nil

extractScriptHash(script) ==
    IF /\ Len(script) = 23
       /\ script[1] = OP_HASH160
       /\ script[2] = OP_DATA_20
       /\ script[23] = OP_EQUAL
    THEN Slice(script, 2, 22)
    ELSE Nil

isScriptHashScript(script) == extractScriptHash(script) # Nil

\* isNullDataScript with the carrier size compared by < instead of <=.
isNullDataScript_Strict(scriptVersion, script) ==
    IF scriptVersion # 0 THEN FALSE
    ELSE IF Len(script) < 1 \/ script[1] # OP_RETURN THEN FALSE
    ELSE IF Len(script) = 1 THEN TRUE
    ELSE LET r == TokenizerNext(MakeScriptTokenizer(scriptVersion, Tail(script)))
         IN  /\ r.ok
             /\ TokenizerDone(r.tok)
             /\ (isSmallInt(r.tok.op) \/ r.tok.op <= OP_PUSHDATA4)
             /\ (IF r.tok.data = Nil THEN 0 ELSE Len(r.tok.data)) < MaxDataCarrierSize

isNullDataScript(scriptVersion, script) ==
    IF scriptVersion # 0 THEN FALSE
    ELSE IF Len(script) < 1 \/ script[1] # OP_RETURN THEN FALSE
    ELSE IF Len(script) = 1 THEN TRUE
    ELSE LET r == TokenizerNext(MakeScriptTokenizer(scriptVersion, Tail(script)))
         IN  /\ r.ok
             /\ TokenizerDone(r.tok)
             /\ (isSmallInt(r.tok.op) \/ r.tok.op <= OP_PUSHDATA4)
             /\ (IF r.tok.data = Nil THEN 0 ELSE Len(r.tok.data)) <= MaxDataCarrierSize

extractStakePubKeyHash(script, stakeOpcode) ==
    IF Len(script) < 1 \/ script[1] # stakeOpcode THEN Nil
    ELSE extractPubKeyHash(Tail(script))

extractStakeScriptHash(script, stakeOpcode) ==
    IF Len(script) < 1 \/ script[1] # stakeOpcode THEN Nil
    ELSE extractScriptHash(Tail(script))

isStakeSubmissionScript(scriptVersion, script) ==
    IF scriptVersion # 0 THEN FALSE
    ELSE \/ extractStakePubKeyHash(script, OP_SSTX) # Nil
         \/ extractStakeScriptHash(script, OP_SSTX) # Nil

\* The shape shared by isStakeGen, isStakeRevocation and isSStxChange.
isStakeTagged(pops, stakeOpcode) ==
    \/ /\ Len(pops) = 6
       /\ pops[1].opcode = stakeOpcode
       /\ pops[2].opcode = OP_DUP
       /\ pops[3].opcode = OP_HASH160
       /\ pops[4].opcode = OP_DATA_20
       /\ pops[5].opcode = OP_EQUALVERIFY
       /\ pops[6].opcode = OP_CHECKSIG
    \/ /\ Len(pops) = 4
       /\ pops[1].opcode = stakeOpcode
       /\ pops[2].opcode = OP_HASH160
       /\ pops[3].opcode = OP_DATA_20
       /\ pops[4].opcode = OP_EQUAL

isStakeGen_AnyTag(pops) ==
    isStakeTagged(pops, OP_SSGEN) \/ isStakeTagged(pops, OP_SSTX)

isStakeGen(pops) == isStakeTagged(pops, OP_SSGEN)

isStakeRevocation(pops) == isStakeTagged(pops, OP_SSRTX)

isSStxChange(pops) == isStakeTagged(pops, OP_SSTXCHANGE)

(***************************************************************************)
(* Classifier.                                                             *)
(***************************************************************************)
\* typeOfScript without the pay-to-pubkey-hash-alt case.
typeOfScript_NoHashAlt(scriptVersion, script) ==
    IF scriptVersion # 0 THEN NonStandardTy
    ELSE IF isPubKeyScript(script) THEN PubKeyTy
    ELSE IF isPubKeyAltScript(script) THEN PubkeyAltTy
    ELSE IF isPubKeyHashScript(script) THEN PubKeyHashTy
    ELSE IF isScriptHashScript(script) THEN ScriptHashTy
    ELSE IF isMultisigScript(scriptVersion, script) THEN MultiSigTy
    ELSE IF isNullDataScript(scriptVersion, script) THEN NullDataTy
    ELSE IF isStakeSubmissionScript(scriptVersion, script) THEN StakeSubmissionTy
    ELSE LET parsed == parseScript(script)
         IN  IF parsed.err THEN NonStandardTy
             ELSE IF isStakeGen(parsed.pops) THEN StakeGenTy
             ELSE IF isStakeRevocation(parsed.pops) THEN StakeRevocationTy
             ELSE IF isSStxChange(parsed.pops) THEN StakeSubChangeTy
             ELSE NonStandardTy

typeOfScript(scriptVersion, script) ==
    IF scriptVersion # 0 THEN NonStandardTy
    ELSE IF isPubKeyScript(script) THEN PubKeyTy
    ELSE IF isPubKeyAltScript(script) THEN PubkeyAltTy
    ELSE IF isPubKeyHashScript(script) THEN PubKeyHashTy
    ELSE IF isPubKeyHashAltScript(script) THEN PubkeyHashAltTy
    ELSE IF isScriptHashScript(script) THEN ScriptHashTy
    ELSE IF isMultisigScript(scriptVersion, script) THEN MultiSigTy
    ELSE IF isNullDataScript(scriptVersion, script) THEN NullDataTy
    ELSE IF isStakeSubmissionScript(scriptVersion, script) THEN StakeSubmissionTy
    ELSE LET parsed == parseScript(script)
         IN  IF parsed.err THEN NonStandardTy
             ELSE IF isStakeGen(parsed.pops) THEN StakeGenTy
             ELSE IF isStakeRevocation(parsed.pops) THEN StakeRevocationTy
             ELSE IF isSStxChange(parsed.pops) THEN StakeSubChangeTy
             ELSE NonStandardTy

\* GetScriptClass that classifies every script as a version 0 script.
GetScriptClass_IgnoreVersion(version, script) == typeOfScript(0, script)

GetScriptClass(version, script) ==
    IF version # DefaultScriptVersion THEN NonStandardTy
    ELSE typeOfScript(version, script)


(***************************************************************************)
(* Script information.                                                     *)
(***************************************************************************)
StakeClasses ==
    {StakeSubmissionTy, StakeGenTy, StakeRevocationTy, StakeSubChangeTy}

\* A nil slice read as a script is the empty script.
bytesOf(data) == IF data = Nil THEN <<>> ELSE data

\* len of a slice that may be nil.
dataLen(data) == IF data = Nil THEN 0 ELSE Len(data)

expectedInputs(pops, class, subclass) ==
    CASE class = PubKeyTy -> 1
      [] class = PubKeyHashTy -> 2
      [] class \in StakeClasses -> IF subclass = PubKeyHashTy THEN 2 ELSE 1
      [] class = ScriptHashTy -> 1
      [] class = MultiSigTy -> asSmallInt(pops[1].opcode)
      [] OTHER -> -1

GetStakeOutSubclass(pkScript) ==
    IF checkScriptParses(0, pkScript) THEN [err |-> TRUE, subClass |-> 0]
    ELSE IF typeOfScript(0, pkScript) \in StakeClasses
    THEN [err |-> FALSE, subClass |-> typeOfScript(0, Tail(pkScript))]
    ELSE [err |-> TRUE, subClass |-> 0]

scriptInfoError(kind) ==
    [panic |-> FALSE, err |-> kind, PkScriptClass |-> 0, NumInputs |-> 0,
     ExpectedInputs |-> 0, SigOps |-> 0]

scriptInfoPanic ==
    [panic |-> TRUE, err |-> "", PkScriptClass |-> 0, NumInputs |-> 0,
     ExpectedInputs |-> 0, SigOps |-> 0]

CalcScriptInfo_PkSigOps(sigScriptArg, pkScript, bip16Arg) ==
    LET sig == parseScript(sigScriptArg)
        pk == parseScript(pkScript)
        pkClass == typeOfScript(0, pkScript)
        sub == IF pkClass \in StakeClasses THEN GetStakeOutSubclass(pkScript)
               ELSE [err |-> FALSE, subClass |-> 0]
        expected == expectedInputs(pk.pops, pkClass, sub.subClass)
    IN  IF sig.err THEN scriptInfoError("parse")
        ELSE IF pk.err THEN scriptInfoError("parse")
        ELSE IF ~isPushOnly(sig.pops) THEN scriptInfoError("ErrNotPushOnly")
        ELSE IF sub.err THEN scriptInfoError("stake")
        ELSE [panic |-> FALSE, err |-> "",
              PkScriptClass |-> pkClass,
              NumInputs |-> Len(sig.pops),
              ExpectedInputs |-> expected,
              SigOps |-> getSigOpCount(pk.pops)]

CalcScriptInfo(sigScriptArg, pkScript, bip16Arg) ==
    LET sig == parseScript(sigScriptArg)
        pk == parseScript(pkScript)
        pkClass == typeOfScript(0, pkScript)
        sub == IF pkClass \in StakeClasses THEN GetStakeOutSubclass(pkScript)
               ELSE [err |-> FALSE, subClass |-> 0]
        expected == expectedInputs(pk.pops, pkClass, sub.subClass)
    IN  IF sig.err THEN scriptInfoError("parse")
        ELSE IF pk.err THEN scriptInfoError("parse")
        ELSE IF ~isPushOnly(sig.pops) THEN scriptInfoError("ErrNotPushOnly")
        ELSE IF sub.err THEN scriptInfoError("stake")
        ELSE IF (pkClass = ScriptHashTy \/ sub.subClass = ScriptHashTy) /\ bip16Arg
        THEN IF Len(sig.pops) = 0 THEN scriptInfoPanic
             ELSE LET redeem == bytesOf(sig.pops[Len(sig.pops)].data)
                      sh == parseScript(redeem)
                      shInputs == expectedInputs(sh.pops, typeOfScript(0, redeem), 0)
                  IN  IF sh.err THEN scriptInfoError("parse")
                      ELSE [panic |-> FALSE, err |-> "",
                            PkScriptClass |-> pkClass,
                            NumInputs |-> Len(sig.pops),
                            ExpectedInputs |->
                                IF shInputs = -1 THEN -1 ELSE expected + shInputs,
                            SigOps |-> getSigOpCount(sh.pops)]
        ELSE [panic |-> FALSE, err |-> "",
              PkScriptClass |-> pkClass,
              NumInputs |-> Len(sig.pops),
              ExpectedInputs |-> expected,
              SigOps |-> getSigOpCount(pk.pops)]

CalcMultiSigStats(script) ==
    LET parsed == parseScript(script)
        pops == parsed.pops
    IN  IF parsed.err
        THEN [numPubKeys |-> 0, requiredSigs |-> 0, err |-> "ErrMalformedPush"]
        ELSE IF Len(pops) < 4
        THEN [numPubKeys |-> 0, requiredSigs |-> 0,
              err |-> "ErrNotMultisigScript"]
        ELSE [numPubKeys |-> asSmallInt(pops[Len(pops) - 1].opcode),
              requiredSigs |-> asSmallInt(pops[1].opcode),
              err |-> ""]

\* The result of MultisigRedeemScriptFromScriptSig: the index expression
\* aborts the call when the script has no operation.
MultisigRedeemScriptFromScriptSig(scriptArg) ==
    LET parsed == parseScript(scriptArg)
        pops == parsed.pops
    IN  IF parsed.err THEN [panic |-> FALSE, err |-> TRUE, script |-> Nil]
        ELSE IF Len(pops) = 0 THEN [panic |-> TRUE, err |-> FALSE, script |-> Nil]
        ELSE [panic |-> FALSE, err |-> FALSE, script |-> pops[Len(pops)].data]

(***************************************************************************)
(* Addresses.  An address is its variant, whether the pointer is nil, the  *)
(* signature scheme of a hash address, and the bytes ScriptAddress gives:  *)
(* the hash, or the serialized key.  Curve membership is not computed: a   *)
(* key counts as a point of its curve unless its last byte is 171.         *)
(***************************************************************************)
Address(variant, scheme, bytes) ==
    [type |-> variant, isNil |-> FALSE, dsa |-> scheme, hash |-> bytes]

onCurve(key) == key[Len(key)] # 171

\* secp256k1.ParsePubKey: the key in compressed form, or Nil.
ParsePubKey(pubKeyStr) ==
    IF pubKeyStr = Nil \/ Len(pubKeyStr) = 0 THEN Nil
    ELSE LET format == pubKeyStr[1] - (pubKeyStr[1] % 2)
             ybit == pubKeyStr[1] % 2
         IN  IF Len(pubKeyStr) = 65
             THEN IF format # 4 /\ format # 6 THEN Nil
                  ELSE IF format = 6 /\ ybit # pubKeyStr[65] % 2 THEN Nil
                  ELSE IF ~onCurve(pubKeyStr) THEN Nil
                  ELSE <<2 + (pubKeyStr[65] % 2)>> \o Slice(pubKeyStr, 1, 33)
             ELSE IF Len(pubKeyStr) = 33
             THEN IF format # 2 \/ ~onCurve(pubKeyStr) THEN Nil
                  ELSE pubKeyStr
             ELSE Nil

\* The constructors of dcrutil: a one-element list, or none on an error.
NewAddressPubKeyHash(pkHash, algo) ==
    IF algo \notin {STEcdsaSecp256k1, STEd25519, STSchnorrSecp256k1}
       \/ dataLen(pkHash) # 20
    THEN <<>>
    ELSE <<Address("AddressPubKeyHash", algo, pkHash)>>

NewAddressScriptHashFromHash(scriptHash) ==
    IF dataLen(scriptHash) # 20 THEN <<>>
    ELSE <<Address("AddressScriptHash", 0, scriptHash)>>

NewAddressSecpPubKeyCompressed(pk) ==
    <<Address("AddressSecpPubKey", 0, pk)>>

NewAddressEdwardsPubKey(serializedPubKey) ==
    IF dataLen(serializedPubKey) # 32 \/ ~onCurve(serializedPubKey) THEN <<>>
    ELSE <<Address("AddressEdwardsPubKey", 0, serializedPubKey)>>

NewAddressSecSchnorrPubKey(serializedPubKey) ==
    IF dataLen(serializedPubKey) # 33 THEN <<>>
    ELSE IF serializedPubKey[1] \notin {2, 3} \/ ~onCurve(serializedPubKey)
    THEN <<>>
    ELSE <<Address("AddressSecSchnorrPubKey", 0, serializedPubKey)>>

isOneByteMaxDataPush(po) ==
    (po.opcode >= OP_1 /\ po.opcode <= OP_16) \/ po.opcode = OP_DATA_1

isPubkeyAlt(pops) ==
    /\ Len(pops) = 3
    /\ dataLen(pops[1].data) < 512
    /\ isOneByteMaxDataPush(pops[2])
    /\ pops[3].opcode = OP_CHECKSIGALT

isPubkeyHashAlt(pops) ==
    /\ Len(pops) = 6
    /\ pops[1].opcode = OP_DUP
    /\ pops[2].opcode = OP_HASH160
    /\ pops[3].opcode = OP_DATA_20
    /\ pops[4].opcode = OP_EQUALVERIFY
    /\ isOneByteMaxDataPush(pops[5])
    /\ pops[6].opcode = OP_CHECKSIGALT

extractOneBytePush(po) ==
    IF ~isOneByteMaxDataPush(po) THEN -1
    ELSE IF po.opcode >= OP_1 /\ po.opcode <= OP_16 THEN po.opcode - 80
    ELSE po.data[1]

\* The signature type alone: every caller in this file drops the error.
ExtractPkScriptAltSigType(pkScript) ==
    LET parsed == parseScript(pkScript)
        pops == parsed.pops
        sigTypeLoc == IF isPubkeyHashAlt(pops) THEN 4 ELSE 1
        valInt == extractOneBytePush(pops[sigTypeLoc + 1])
    IN  IF parsed.err THEN 0
        ELSE IF ~(isPubkeyAlt(pops) \/ isPubkeyHashAlt(pops)) THEN -1
        ELSE IF valInt < 0 THEN 0
        ELSE IF valInt = STEd25519 \/ valInt = STSchnorrSecp256k1 THEN valInt
        ELSE -1

\* getStakeOutSubscript that drops two bytes.
getStakeOutSubscript_TwoBytes(pkScript) == Tail(Tail(pkScript))

getStakeOutSubscript(pkScript) == Tail(pkScript)

\* multiSigAddrs that stops at the first key that does not parse.
RECURSIVE multiSigAddrs_StopAtInvalid(_, _, _)
multiSigAddrs_StopAtInvalid(pops, i, numPubKeys) ==
    IF i >= numPubKeys THEN <<>>
    ELSE LET pubkey == ParsePubKey(pops[i + 2].data)
         IN  IF pubkey = Nil THEN <<>>
             ELSE NewAddressSecpPubKeyCompressed(pubkey)
                  \o multiSigAddrs_StopAtInvalid(pops, i + 1, numPubKeys)

\* The addresses of the keys in pops[1 .. numPubKeys] (positions counted
\* from 0) that parse, in order.
RECURSIVE multiSigAddrs(_, _, _)
multiSigAddrs(pops, i, numPubKeys) ==
    IF i >= numPubKeys THEN <<>>
    ELSE LET pubkey == ParsePubKey(pops[i + 2].data)
         IN  (IF pubkey = Nil THEN <<>>
              ELSE NewAddressSecpPubKeyCompressed(pubkey))
             \o multiSigAddrs(pops, i + 1, numPubKeys)

extractResult(scriptClass, addresses, sigs, error, subCalls) ==
    [class |-> scriptClass, addrs |-> addresses, requiredSigs |-> sigs,
     err |-> error, calls |-> subCalls]

\* calls lists the scripts handed to the recursive calls, nested ones
\* included.
RECURSIVE ExtractPkScriptAddrs(_, _)

\* extractClassAddrs with no required signature for a script hash.
extractClassAddrs_ScriptHashNoSigs(scriptVersion, pkScript, pops) ==
    LET scriptClass == typeOfScript(scriptVersion, pkScript)
        suite == ExtractPkScriptAltSigType(pkScript)
        subscript == getStakeOutSubscript(pkScript)
        sub == ExtractPkScriptAddrs(scriptVersion, subscript)
    IN  CASE scriptClass = PubKeyHashTy ->
                extractResult(scriptClass,
                    NewAddressPubKeyHash(pops[3].data, STEcdsaSecp256k1),
                    1, "", <<>>)
          [] scriptClass = PubkeyHashAltTy ->
                extractResult(scriptClass,
                    NewAddressPubKeyHash(pops[3].data, suite), 1, "", <<>>)
          [] scriptClass = PubKeyTy ->
                extractResult(scriptClass,
                    IF ParsePubKey(pops[1].data) = Nil THEN <<>>
                    ELSE NewAddressSecpPubKeyCompressed(
                             ParsePubKey(pops[1].data)),
                    1, "", <<>>)
          [] scriptClass = PubkeyAltTy ->
                extractResult(scriptClass,
                    IF suite = STEd25519
                    THEN NewAddressEdwardsPubKey(pops[1].data)
                    ELSE IF suite = STSchnorrSecp256k1
                    THEN NewAddressSecSchnorrPubKey(pops[1].data)
                    ELSE <<>>,
                    1, "", <<>>)
          [] scriptClass \in StakeClasses ->
                extractResult(scriptClass,
                    IF sub.err = "" THEN sub.addrs ELSE <<>>,
                    sub.requiredSigs, "", <<subscript>> \o sub.calls)
          [] scriptClass = ScriptHashTy ->
                extractResult(scriptClass,
                    NewAddressScriptHashFromHash(pops[2].data), 0, "", <<>>)
          [] scriptClass = MultiSigTy ->
                extractResult(scriptClass,
                    multiSigAddrs(pops, 0,
                        asSmallInt(pops[Len(pops) - 1].opcode)),
                    asSmallInt(pops[1].opcode), "", <<>>)
          [] OTHER -> extractResult(scriptClass, <<>>, 0, "", <<>>)

\* The switch of ExtractPkScriptAddrs on the class of a script that parsed.
extractClassAddrs(scriptVersion, pkScript, pops) ==
    LET scriptClass == typeOfScript(scriptVersion, pkScript)
        suite == ExtractPkScriptAltSigType(pkScript)
        subscript == getStakeOutSubscript(pkScript)
        sub == ExtractPkScriptAddrs(scriptVersion, subscript)
    IN  CASE scriptClass = PubKeyHashTy ->
                extractResult(scriptClass,
                    NewAddressPubKeyHash(pops[3].data, STEcdsaSecp256k1),
                    1, "", <<>>)
          [] scriptClass = PubkeyHashAltTy ->
                extractResult(scriptClass,
                    NewAddressPubKeyHash(pops[3].data, suite), 1, "", <<>>)
          [] scriptClass = PubKeyTy ->
                extractResult(scriptClass,
                    IF ParsePubKey(pops[1].data) = Nil THEN <<>>
                    ELSE NewAddressSecpPubKeyCompressed(
                             ParsePubKey(pops[1].data)),
                    1, "", <<>>)
          [] scriptClass = PubkeyAltTy ->
                extractResult(scriptClass,
                    IF suite = STEd25519
                    THEN NewAddressEdwardsPubKey(pops[1].data)
                    ELSE IF suite = STSchnorrSecp256k1
                    THEN NewAddressSecSchnorrPubKey(pops[1].data)
                    ELSE <<>>,
                    1, "", <<>>)
          [] scriptClass \in StakeClasses ->
                extractResult(scriptClass,
                    IF sub.err = "" THEN sub.addrs ELSE <<>>,
                    sub.requiredSigs, "", <<subscript>> \o sub.calls)
          [] scriptClass = ScriptHashTy ->
                extractResult(scriptClass,
                    NewAddressScriptHashFromHash(pops[2].data), 1, "", <<>>)
          [] scriptClass = MultiSigTy ->
                extractResult(scriptClass,
                    multiSigAddrs(pops, 0,
                        asSmallInt(pops[Len(pops) - 1].opcode)),
                    asSmallInt(pops[1].opcode), "", <<>>)
          [] OTHER -> extractResult(scriptClass, <<>>, 0, "", <<>>)

\* ExtractPkScriptAddrs without the check of the version.
ExtractPkScriptAddrs_NoVersionCheck(scriptVersion, pkScript) ==
    LET parsed == parseScript(pkScript)
    IN  IF parsed.err
        THEN extractResult(NonStandardTy, <<>>, 0, "ErrMalformedPush", <<>>)
        ELSE extractClassAddrs(scriptVersion, pkScript, parsed.pops)

ExtractPkScriptAddrs(scriptVersion, pkScript) ==
    LET parsed == parseScript(pkScript)
    IN  IF scriptVersion # DefaultScriptVersion
        THEN extractResult(NonStandardTy, <<>>, 0, "invalid script version",
                           <<>>)
        ELSE IF parsed.err
        THEN extractResult(NonStandardTy, <<>>, 0, "ErrMalformedPush", <<>>)
        ELSE extractClassAddrs(scriptVersion, pkScript, parsed.pops)

(***************************************************************************)
(* Atomic swap contracts.  A script number (up to 5 bytes, 39 bits and a   *)
(* sign) is its sign and the 16-bit limbs of its magnitude, least          *)
(* significant first.                                                      *)
(***************************************************************************)
canonicalPush(pop) ==
    LET opcode == pop.opcode
        n == dataLen(pop.data)
    IN  IF opcode > OP_16 THEN TRUE
        ELSE IF opcode < OP_PUSHDATA1 /\ opcode > OP_0
                /\ n = 1 /\ pop.data[1] <= 16 THEN FALSE
        ELSE IF opcode = OP_PUSHDATA1 /\ n < OP_PUSHDATA1 THEN FALSE
        ELSE IF opcode = OP_PUSHDATA2 /\ n <= 255 THEN FALSE
        ELSE IF opcode = OP_PUSHDATA4 /\ n <= 65535 THEN FALSE
        ELSE TRUE

\* TRUE when the bytes are not the shortest encoding of their number.
checkMinimalDataEncoding(v) ==
    /\ Len(v) > 0
    /\ v[Len(v)] % 128 = 0
    /\ (Len(v) = 1 \/ v[Len(v) - 1] < 128)

scriptNum(negative, bytes) ==
    LET b(i) == IF i <= Len(bytes) THEN bytes[i] ELSE 0
    IN  [neg |-> negative,
         mag |-> <<b(1) + 256 * b(2), b(3) + 256 * b(4), b(5)>>]

makeScriptNum(v, scriptNumLen) ==
    IF Len(v) > scriptNumLen \/ checkMinimalDataEncoding(v)
    THEN [err |-> TRUE, num |-> scriptNum(FALSE, <<>>)]
    ELSE IF Len(v) = 0
    THEN [err |-> FALSE, num |-> scriptNum(FALSE, <<>>)]
    ELSE IF v[Len(v)] >= 128
    THEN [err |-> FALSE,
          num |-> scriptNum(TRUE, [v EXCEPT ![Len(v)] = @ - 128])]
    ELSE [err |-> FALSE, num |-> scriptNum(FALSE, v)]

\* The fixed-size array a push is copied into: short data leaves zeroes.
copyInto(size, d) ==
    [i \in 1..size |-> IF i <= dataLen(d) THEN d[i] ELSE 0]

noPushes(error) ==
    [err |-> error, isNil |-> TRUE, RecipientHash160 |-> <<>>,
     RefundHash160 |-> <<>>, SecretHash |-> <<>>,
     SecretSize |-> scriptNum(FALSE, <<>>),
     LockTime |-> scriptNum(FALSE, <<>>)]

isAtomicSwap_NoFinalCheck(pops) ==
    /\ pops[1].opcode = OP_IF
    /\ pops[2].opcode = OP_SIZE
    /\ canonicalPush(pops[3])
    /\ pops[4].opcode = OP_EQUALVERIFY
    /\ pops[5].opcode = OP_SHA256
    /\ pops[6].opcode = OP_DATA_32
    /\ pops[7].opcode = OP_EQUALVERIFY
    /\ pops[8].opcode = OP_DUP
    /\ pops[9].opcode = OP_HASH160
    /\ pops[10].opcode = OP_DATA_20
    /\ pops[11].opcode = OP_ELSE
    /\ canonicalPush(pops[12])
    /\ pops[13].opcode = OP_CHECKLOCKTIMEVERIFY
    /\ pops[14].opcode = OP_DROP
    /\ pops[15].opcode = OP_DUP
    /\ pops[16].opcode = OP_HASH160
    /\ pops[17].opcode = OP_DATA_20
    /\ pops[18].opcode = OP_ENDIF
    /\ pops[19].opcode = OP_EQUALVERIFY

isAtomicSwap(pops) ==
    /\ pops[1].opcode = OP_IF
    /\ pops[2].opcode = OP_SIZE
    /\ canonicalPush(pops[3])
    /\ pops[4].opcode = OP_EQUALVERIFY
    /\ pops[5].opcode = OP_SHA256
    /\ pops[6].opcode = OP_DATA_32
    /\ pops[7].opcode = OP_EQUALVERIFY
    /\ pops[8].opcode = OP_DUP
    /\ pops[9].opcode = OP_HASH160
    /\ pops[10].opcode = OP_DATA_20
    /\ pops[11].opcode = OP_ELSE
    /\ canonicalPush(pops[12])
    /\ pops[13].opcode = OP_CHECKLOCKTIMEVERIFY
    /\ pops[14].opcode = OP_DROP
    /\ pops[15].opcode = OP_DUP
    /\ pops[16].opcode = OP_HASH160
    /\ pops[17].opcode = OP_DATA_20
    /\ pops[18].opcode = OP_ENDIF
    /\ pops[19].opcode = OP_EQUALVERIFY
    /\ pops[20].opcode = OP_CHECKSIG

\* The number of an operand of the contract: the script number of its data,
\* or its small integer.
swapOperand_IgnoreError(pop) ==
    IF pop.data # Nil
    THEN [makeScriptNum(pop.data, 5) EXCEPT !.err = FALSE]
    ELSE IF isSmallInt(pop.opcode)
    THEN [err |-> FALSE, num |-> scriptNum(FALSE, <<asSmallInt(pop.opcode)>>)]
    ELSE [err |-> TRUE, num |-> scriptNum(FALSE, <<>>)]

swapOperand(pop) ==
    IF pop.data # Nil
    THEN makeScriptNum(pop.data, 5)
    ELSE IF isSmallInt(pop.opcode)
    THEN [err |-> FALSE, num |-> scriptNum(FALSE, <<asSmallInt(pop.opcode)>>)]
    ELSE [err |-> TRUE, num |-> scriptNum(FALSE, <<>>)]

ExtractAtomicSwapDataPushes(scriptVersion, pkScript) ==
    LET parsed == parseScript(pkScript)
        pops == parsed.pops
        secretSize == swapOperand(pops[3])
        lockTime == swapOperand(pops[12])
    IN  IF parsed.err THEN noPushes(TRUE)
        ELSE IF Len(pops) # 20 THEN noPushes(FALSE)
        ELSE IF ~isAtomicSwap(pops) THEN noPushes(FALSE)
        ELSE IF secretSize.err THEN noPushes(FALSE)
        ELSE IF lockTime.err THEN noPushes(FALSE)
        ELSE [err |-> FALSE, isNil |-> FALSE,
              RecipientHash160 |-> copyInto(20, pops[10].data),
              RefundHash160 |-> copyInto(20, pops[17].data),
              SecretHash |-> copyInto(32, pops[6].data),
              SecretSize |-> secretSize.num,
              LockTime |-> lockTime.num]

(***************************************************************************)
(* Script builders.  An amount (64 bits) is four 16-bit limbs, least       *)
(* significant first; the limits are one 16-bit value.                     *)
(***************************************************************************)
\* ScriptBuilder.AddData for data of at most 65535 bytes.
AddData(data) ==
    LET n == Len(data)
    IN  IF n = 0 \/ (n = 1 /\ data[1] = 0) THEN <<OP_0>>
        ELSE IF n = 1 /\ data[1] <= 16 THEN <<(OP_1 - 1) + data[1]>>
        ELSE IF n = 1 /\ data[1] = 129 THEN <<OP_1NEGATE>>
        ELSE IF n < OP_PUSHDATA1 THEN <<(OP_DATA_1 - 1) + n>> \o data
        ELSE IF n <= 255 THEN <<OP_PUSHDATA1, n>> \o data
        ELSE <<OP_PUSHDATA2, n % 256, n \div 256>> \o data

PutUint16(v) == <<v % 256, v \div 256>>

PutUint64(limbs) ==
    PutUint16(limbs[1]) \o PutUint16(limbs[2]) \o PutUint16(limbs[3])
    \o PutUint16(limbs[4])

\* b | (1 << 7)
setBit7(b) == IF b >= 128 THEN b ELSE b + 128

builderError(kind) == [err |-> kind, script |-> Nil]

\* stakeAddrType without the check of the signature scheme.
stakeAddrType_AnyScheme(a) ==
    IF a.type = "AddressPubKeyHash"
    THEN IF a.isNil THEN [err |-> "ErrUnsupportedAddress", scriptType |-> 0]
         ELSE [err |-> "", scriptType |-> PubKeyHashTy]
    ELSE IF a.type = "AddressScriptHash"
    THEN IF a.isNil THEN [err |-> "ErrUnsupportedAddress", scriptType |-> 0]
         ELSE [err |-> "", scriptType |-> ScriptHashTy]
    ELSE [err |-> "ErrUnsupportedAddress", scriptType |-> 0]

\* The type switch shared by the stake builders: the script type, or the
\* error.
stakeAddrType(a) ==
    IF a.type = "AddressPubKeyHash"
    THEN IF a.isNil THEN [err |-> "ErrUnsupportedAddress", scriptType |-> 0]
         ELSE IF a.dsa # STEcdsaSecp256k1
         THEN [err |-> "ErrUnsupportedAddress", scriptType |-> 0]
         ELSE [err |-> "", scriptType |-> PubKeyHashTy]
    ELSE IF a.type = "AddressScriptHash"
    THEN IF a.isNil THEN [err |-> "ErrUnsupportedAddress", scriptType |-> 0]
         ELSE [err |-> "", scriptType |-> ScriptHashTy]
    ELSE [err |-> "ErrUnsupportedAddress", scriptType |-> 0]

GenerateSStxAddrPush(a, amountArg, limitsArg) ==
    LET t == stakeAddrType(a)
        adBytes == a.hash \o PutUint64(amountArg) \o PutUint16(limitsArg)
        flagged == IF t.scriptType = ScriptHashTy
                   THEN [adBytes EXCEPT ![28] = setBit7(@)]
                   ELSE adBytes
    IN  IF t.err # "" THEN builderError(t.err)
        ELSE [err |-> "", script |-> <<OP_RETURN>> \o AddData(flagged)]

ok(scriptBytes) == [err |-> "", script |-> scriptBytes]

\* scriptNum.Bytes for a magnitude under 65536: little endian, the sign in
\* the top bit of the last byte.
scriptNumBytes(val) ==
    LET mag == IF val < 0 THEN 0 - val ELSE val
        raw == IF mag < 256 THEN <<mag>> ELSE <<mag % 256, mag \div 256>>
        top == raw[Len(raw)]
    IN  IF val = 0 THEN <<>>
        ELSE IF top >= 128
        THEN raw \o <<IF val < 0 THEN 128 ELSE 0>>
        ELSE IF val < 0 THEN [raw EXCEPT ![Len(raw)] = top + 128]
        ELSE raw

AddInt64(val) ==
    IF val = 0 THEN <<OP_0>>
    ELSE IF val = -1 \/ (val >= 1 /\ val <= 16) THEN <<(OP_1 - 1) + val>>
    ELSE AddData(scriptNumBytes(val))

payToPubKeyHashScript(pubKeyHash) ==
    ok(<<OP_DUP, OP_HASH160>> \o AddData(pubKeyHash)
       \o <<OP_EQUALVERIFY, OP_CHECKSIG>>)

payToPubKeyHashEdwardsScript(pubKeyHash) ==
    ok(<<OP_DUP, OP_HASH160>> \o AddData(pubKeyHash) \o <<OP_EQUALVERIFY>>
       \o AddData(<<STEd25519>>) \o <<OP_CHECKSIGALT>>)

\* payToPubKeyHashSchnorrScript with the tag of the Edwards builder.
payToPubKeyHashSchnorrScript_EdwardsTag(pubKeyHash) ==
    ok(<<OP_DUP, OP_HASH160>> \o AddData(pubKeyHash) \o <<OP_EQUALVERIFY>>
       \o AddData(<<STEd25519>>) \o <<OP_CHECKSIGALT>>)

payToPubKeyHashSchnorrScript(pubKeyHash) ==
    ok(<<OP_DUP, OP_HASH160>> \o AddData(pubKeyHash) \o <<OP_EQUALVERIFY>>
       \o AddData(<<STSchnorrSecp256k1>>) \o <<OP_CHECKSIGALT>>)

payToScriptHashScript(scriptHash) ==
    ok(<<OP_HASH160>> \o AddData(scriptHash) \o <<OP_EQUAL>>)

payToPubKeyScript(serializedPubKey) ==
    ok(AddData(serializedPubKey) \o <<OP_CHECKSIG>>)

payToEdwardsPubKeyScript(serializedPubKey) ==
    ok(AddData(serializedPubKey) \o AddData(<<STEd25519>>)
       \o <<OP_CHECKSIGALT>>)

payToSchnorrPubKeyScript(serializedPubKey) ==
    ok(AddData(serializedPubKey) \o AddData(<<STSchnorrSecp256k1>>)
       \o <<OP_CHECKSIGALT>>)

PayToSStx(a) ==
    LET t == stakeAddrType(a)
    IN  IF t.err # "" THEN builderError(t.err)
        ELSE IF t.scriptType = PubKeyHashTy
        THEN ok(<<OP_SSTX, OP_DUP, OP_HASH160>> \o AddData(a.hash)
                \o <<OP_EQUALVERIFY, OP_CHECKSIG>>)
        ELSE ok(<<OP_SSTX, OP_HASH160>> \o AddData(a.hash) \o <<OP_EQUAL>>)

PayToSStxChange(a) ==
    LET t == stakeAddrType(a)
    IN  IF t.err # "" THEN builderError(t.err)
        ELSE IF t.scriptType = PubKeyHashTy
        THEN ok(<<OP_SSTXCHANGE, OP_DUP, OP_HASH160>> \o AddData(a.hash)
                \o <<OP_EQUALVERIFY, OP_CHECKSIG>>)
        ELSE ok(<<OP_SSTXCHANGE, OP_HASH160>> \o AddData(a.hash)
                \o <<OP_EQUAL>>)

PayToSSGen(a) ==
    LET t == stakeAddrType(a)
    IN  IF t.err # "" THEN builderError(t.err)
        ELSE IF t.scriptType = PubKeyHashTy
        THEN ok(<<OP_SSGEN, OP_DUP, OP_HASH160>> \o AddData(a.hash)
                \o <<OP_EQUALVERIFY, OP_CHECKSIG>>)
        ELSE ok(<<OP_SSGEN, OP_HASH160>> \o AddData(a.hash) \o <<OP_EQUAL>>)

PayToSSGenPKHDirect(pkh) ==
    ok(<<OP_SSGEN, OP_DUP, OP_HASH160>> \o AddData(pkh)
       \o <<OP_EQUALVERIFY, OP_CHECKSIG>>)

PayToSSGenSHDirect(sh) ==
    ok(<<OP_SSGEN, OP_HASH160>> \o AddData(sh) \o <<OP_EQUAL>>)

PayToSSRtx(a) ==
    LET t == stakeAddrType(a)
    IN  IF t.err # "" THEN builderError(t.err)
        ELSE IF t.scriptType = PubKeyHashTy
        THEN ok(<<OP_SSRTX, OP_DUP, OP_HASH160>> \o AddData(a.hash)
                \o <<OP_EQUALVERIFY, OP_CHECKSIG>>)
        ELSE ok(<<OP_SSRTX, OP_HASH160>> \o AddData(a.hash) \o <<OP_EQUAL>>)

PayToSSRtxPKHDirect(pkh) ==
    ok(<<OP_SSRTX, OP_DUP, OP_HASH160>> \o AddData(pkh)
       \o <<OP_EQUALVERIFY, OP_CHECKSIG>>)

PayToSSRtxSHDirect(sh) ==
    ok(<<OP_SSRTX, OP_HASH160>> \o AddData(sh) \o <<OP_EQUAL>>)

GenerateProvablyPruneableOut(data) ==
    IF Len(data) > MaxDataCarrierSize THEN builderError("ErrTooMuchNullData")
    ELSE ok(<<OP_RETURN>> \o AddData(data))

PayToAddrScript(a) ==
    CASE a.type = "AddressPubKeyHash" ->
            IF a.isNil THEN builderError("ErrUnsupportedAddress")
            ELSE IF a.dsa = STEcdsaSecp256k1
            THEN payToPubKeyHashScript(a.hash)
            ELSE IF a.dsa = STEd25519
            THEN payToPubKeyHashEdwardsScript(a.hash)
            ELSE IF a.dsa = STSchnorrSecp256k1
            THEN payToPubKeyHashSchnorrScript(a.hash)
            ELSE builderError("ErrUnsupportedAddress")
      [] a.type = "AddressScriptHash" ->
            IF a.isNil THEN builderError("ErrUnsupportedAddress")
            ELSE payToScriptHashScript(a.hash)
      [] a.type = "AddressSecpPubKey" ->
            IF a.isNil THEN builderError("ErrUnsupportedAddress")
            ELSE payToPubKeyScript(a.hash)
      [] a.type = "AddressEdwardsPubKey" ->
            IF a.isNil THEN builderError("ErrUnsupportedAddress")
            ELSE payToEdwardsPubKeyScript(a.hash)
      [] a.type = "AddressSecSchnorrPubKey" ->
            IF a.isNil THEN builderError("ErrUnsupportedAddress")
            ELSE payToSchnorrPubKeyScript(a.hash)
      [] OTHER -> builderError("ErrUnsupportedAddress")

RECURSIVE addKeys(_, _)
addKeys(keys, i) ==
    IF i > Len(keys) THEN <<>>
    ELSE AddData(keys[i]) \o addKeys(keys, i + 1)

\* MultiSigScript that also refuses nrequired equal to the number of keys.
MultiSigScript_RejectEqual(keys, required) ==
    IF Len(keys) <= required THEN builderError("ErrTooManyRequiredSigs")
    ELSE ok(AddInt64(required) \o addKeys(keys, 1) \o AddInt64(Len(keys))
            \o <<OP_CHECKMULTISIG>>)

MultiSigScript(keys, required) ==
    IF Len(keys) < required THEN builderError("ErrTooManyRequiredSigs")
    ELSE ok(AddInt64(required) \o addKeys(keys, 1) \o AddInt64(Len(keys))
            \o <<OP_CHECKMULTISIG>>)

(***************************************************************************)
(* Inputs: the standard templates, every one-byte change, truncation and   *)
(* extension of them, and every short string over the opcodes the          *)
(* matchers look at.                                                       *)
(***************************************************************************)
FillBytes == {17, 171}

\* Byte values written over, put before or put after a template.
MutBytes ==
    {OP_0, OP_DATA_1, 2, 4, OP_DATA_20, 21, OP_DATA_32, OP_DATA_33,
     OP_DATA_65, OP_PUSHDATA1, OP_1NEGATE, OP_1, OP_2, OP_16, 97,
     OP_RETURN, OP_DUP, OP_EQUAL, OP_EQUALVERIFY, OP_HASH160, OP_CHECKSIG,
     OP_CHECKMULTISIG, OP_CHECKMULTISIGVERIFY, OP_SSTX, OP_SSGEN, OP_SSRTX,
     OP_SSTXCHANGE, OP_CHECKSIGALT, 255}

ShortAlphabet ==
    {OP_0, OP_DATA_1, OP_PUSHDATA1, OP_1, OP_2, OP_RETURN, OP_HASH160,
     OP_CHECKSIG, OP_CHECKMULTISIG, OP_CHECKSIGALT}

StakeOpcodes == {OP_SSTX, OP_SSGEN, OP_SSRTX, OP_SSTXCHANGE}

CompressedKey(prefix, f) == <<prefix>> \o Rep(32, f)
UncompressedKey(f) == <<4>> \o Rep(64, f)

RECURSIVE KeyPushes(_, _)
KeyPushes(n, f) ==
    IF n = 0 THEN <<>>
    ELSE <<OP_DATA_33>> \o CompressedKey(2 + (n % 2), f) \o KeyPushes(n - 1, f)

SmallIntOp(n) == IF n = 0 THEN OP_0 ELSE OP_1 - 1 + n

P2PKTemplates ==
    {<<OP_DATA_33>> \o CompressedKey(p, f) \o <<OP_CHECKSIG>> :
        p \in {2, 3}, f \in FillBytes}
    \cup {<<OP_DATA_65>> \o UncompressedKey(f) \o <<OP_CHECKSIG>> : f \in FillBytes}

P2PKAltTemplates ==
    {<<OP_DATA_32>> \o Rep(32, f) \o <<OP_1, OP_CHECKSIGALT>> : f \in FillBytes}
    \cup {<<OP_DATA_33>> \o CompressedKey(3, f) \o <<OP_2, OP_CHECKSIGALT>> :
            f \in FillBytes}

P2PKHTemplates ==
    {<<OP_DUP, OP_HASH160, OP_DATA_20>> \o Rep(20, f)
        \o <<OP_EQUALVERIFY, OP_CHECKSIG>> : f \in FillBytes}

P2PKHAltTemplates ==
    {<<OP_DUP, OP_HASH160, OP_DATA_20>> \o Rep(20, f)
        \o <<OP_EQUALVERIFY, st, OP_CHECKSIGALT>> :
        f \in FillBytes, st \in {OP_1, OP_2}}

P2SHTemplates ==
    {<<OP_HASH160, OP_DATA_20>> \o Rep(20, f) \o <<OP_EQUAL>> : f \in FillBytes}

StakeTemplates ==
    {<<tag>> \o body : tag \in StakeOpcodes,
                       body \in {<<OP_DUP, OP_HASH160, OP_DATA_20>> \o Rep(20, 17)
                                    \o <<OP_EQUALVERIFY, OP_CHECKSIG>>,
                                 <<OP_HASH160, OP_DATA_20>> \o Rep(20, 17)
                                    \o <<OP_EQUAL>>}}

\* <m> <n keys> <k> OP_CHECKMULTISIG, also with k different from n.
MultiSigTemplates ==
    {<<SmallIntOp(m)>> \o KeyPushes(n, 17) \o <<SmallIntOp(k), OP_CHECKMULTISIG>> :
        m \in 0..MaxKeys, n \in 0..MaxKeys, k \in 0..(MaxKeys + 1)}

NullDataTemplates ==
    {<<OP_RETURN>>,
     <<OP_RETURN, OP_0>>,
     <<OP_RETURN, OP_1>>,
     <<OP_RETURN, OP_16>>,
     <<OP_RETURN, 4, OP_1>>,
     <<OP_RETURN, 8>> \o Rep(8, 17),
     <<OP_RETURN, 60>> \o Rep(60, 17),
     <<OP_RETURN, OP_PUSHDATA1, 60>> \o Rep(60, 17),
     <<OP_RETURN, OP_PUSHDATA2, 0, 1>> \o Rep(MaxDataCarrierSize, 17),
     <<OP_RETURN, OP_PUSHDATA2, 1, 1>> \o Rep(MaxDataCarrierSize + 1, 17),
     <<OP_RETURN, OP_PUSHDATA4, 0, 1, 0, 0>> \o Rep(MaxDataCarrierSize, 17),
     <<OP_RETURN, OP_PUSHDATA4, 1, 0, 0, 128, 17>>,
     <<OP_RETURN, OP_PUSHDATA1, 2, 17, 17, OP_1>>}

Templates ==
    P2PKTemplates \cup P2PKAltTemplates \cup P2PKHTemplates \cup P2PKHAltTemplates
    \cup P2SHTemplates \cup StakeTemplates \cup MultiSigTemplates
    \cup NullDataTemplates

\* Every one-byte change of a template, the template without its last or
\* first byte, and the template with one byte after or before it.
Mutations(t) ==
    {[t EXCEPT ![i] = b] : i \in 1..Len(t), b \in MutBytes}
    \cup {SubSeq(t, 1, Len(t) - 1), Tail(t)}
    \cup {t \o <<b>> : b \in MutBytes}
    \cup {<<b>> \o t : b \in MutBytes}

ShortScripts == UNION {[1..n -> ShortAlphabet] : n \in 0..MaxShortLen}

Versions == {1, 65535}

\* Signature scripts: empty, single pushes, a signature and a key, pushes of
\* redeem scripts, one that is not push only and one that does not parse.
RedeemScripts ==
    {t \in MultiSigTemplates : Len(t) <= 75}
    \cup {t \in P2PKHTemplates \cup P2SHTemplates \cup P2PKAltTemplates : TRUE}
    \cup {<<OP_RETURN>>, <<OP_DATA_1>>}

SigScripts ==
    {<<>>, <<OP_0>>, <<OP_1>>, <<OP_DUP>>, <<5, 1, 2>>,
     <<71>> \o Rep(71, 48),
     <<71>> \o Rep(71, 48) \o <<OP_DATA_33>> \o CompressedKey(2, 17)}
    \cup {<<OP_0>> \o AddData(r) : r \in RedeemScripts}

PkScripts ==
    Templates
    \cup {<<tag>> \o t : tag \in StakeOpcodes, t \in P2SHTemplates}
    \cup {<<>>, <<OP_DATA_20, 1>>, <<OP_1, OP_CHECKSIG>>}

Hash160s == {Rep(20, f) : f \in FillBytes}

Addresses ==
    {[type |-> ty, isNil |-> FALSE, dsa |-> d, hash |-> h] :
        ty \in {"AddressPubKeyHash", "AddressScriptHash"},
        d \in {STEcdsaSecp256k1, STEd25519, STSchnorrSecp256k1},
        h \in Hash160s}
    \cup {[type |-> "AddressSecpPubKey", isNil |-> FALSE, dsa |-> 0,
           hash |-> CompressedKey(2, 17)],
          [type |-> "AddressEdwardsPubKey", isNil |-> FALSE, dsa |-> 0,
           hash |-> Rep(32, 17)],
          [type |-> "AddressSecSchnorrPubKey", isNil |-> FALSE, dsa |-> 0,
           hash |-> CompressedKey(3, 17)]}
    \cup {[type |-> ty, isNil |-> TRUE, dsa |-> 0, hash |-> Nil] :
            ty \in {"AddressPubKeyHash", "AddressScriptHash",
                    "AddressSecpPubKey", "AddressEdwardsPubKey",
                    "AddressSecSchnorrPubKey"}}
    \cup {[type |-> ty, isNil |-> FALSE, dsa |-> 0, hash |-> Nil] :
            ty \in {"AddressOther", "nil"}}

Amounts ==
    {<<0, 0, 0, 0>>, <<1, 0, 0, 0>>, <<258, 0, 0, 0>>, <<65535, 65535, 0, 0>>,
     <<4660, 22136, 37035, 291>>, <<0, 0, 0, 32767>>, <<65535, 65535, 65535, 32767>>,
     <<65535, 65535, 65535, 65535>>}

Limits == {0, 1, 88, 255, 256, 22136, 32767, 32768, 65535}

\* Payloads of a data carrier: every single byte, and the lengths around
\* the changes of push opcode and the size limit.
Payloads ==
    {<<b>> : b \in 0..255}
    \cup {Rep(n, f) : n \in {0, 2, 75, 76, 255, 256, 257}, f \in FillBytes}

PubKeys == {CompressedKey(2, 17), CompressedKey(3, 171)}

PubKeyLists ==
    UNION {[1..n -> PubKeys] : n \in 0..MaxKeys}
    \cup {[i \in 1..n |-> CompressedKey(2, 17)] : n \in {16, 17}}

\* The multisig scripts the builder makes, keys off the curve among them.
BuiltMultiSigScripts ==
    UNION {{MultiSigScript(ks, m).script : m \in 0..Len(ks)} :
              ks \in PubKeyLists}

\* The script of the "short script" case of TestCalcMultiSigStats.
ShortScriptTest ==
    <<4, 103, 8, 175, 219, 15, 229, 84, 130, 113, 150, 127, 26, 103, 19, 11,
      113, 5, 205, 106, 130, 142, 3, 144, 154, 103, 150, 46, 14, 161, 246, 29>>

(***************************************************************************)
(* The calls: Init draws the arguments of one call, the action of the      *)
(* called function computes its result.                                    *)
(***************************************************************************)
VARIABLES pc, fn, version, script, sigScript, bip16, class, addr, amount,
          limits, data, pubkeys, nrequired, ret

\* The memWallet of rpctest: its fields, the position of the goroutine
\* chainSyncer with its local update, the IngestBlock calls that have
\* appended their update and not yet started the goroutine that signals,
\* the number of those goroutines blocked on chainUpdateSignal, the main
\* chain of the node the callbacks report, whether the process has
\* panicked, and the history the properties speak about.
VARIABLES utxos, reorgJournal, chainUpdates, chainUpdateSignal,
          currentHeight, hdIndex, addrs, syncer, ingesting, chain, panicked,
          hist

wvars == <<utxos, reorgJournal, chainUpdates, chainUpdateSignal,
           currentHeight, hdIndex, addrs, syncer, ingesting, chain, panicked,
           hist>>

vars == <<pc, fn, version, script, sigScript, bip16, class, addr, amount,
          limits, data, pubkeys, nrequired, ret, wvars>>

args == <<fn, version, script, sigScript, bip16, class, addr, amount, limits,
          data, pubkeys, nrequired>>

\* A chainUpdate, with the number of updates appended up to it.
NoUpdate == [blockHeight |-> 0, filteredTxns |-> <<>>, seq |-> 0]

\* What CreateTransaction returned: the error, or the inputs of the
\* transaction.
NoTx == [err |-> FALSE, ins |-> {}]

\* The wallet newMemWallet returns, after Start: key 0 is the coinbase key.
newMemWallet ==
    /\ utxos = <<>>
    /\ reorgJournal = <<>>
    /\ chainUpdates = <<>>
    /\ chainUpdateSignal = 0
    /\ currentHeight = 0
    /\ hdIndex = 1
    /\ addrs = {0}
    /\ syncer = [pc |-> "range", update |-> NoUpdate]
    /\ ingesting = {}
    /\ chain = <<>>
    /\ panicked = ""
    /\ hist = [appended |-> 0, dequeued |-> 0, applied |-> 0, spent |-> {},
               justApplied |-> FALSE, before |-> <<>>, tx |-> NoTx,
               stale |-> {}, staleApplied |-> FALSE]

NoAddress == [type |-> "nil", isNil |-> FALSE, dsa |-> 0, hash |-> Nil]

\* The arguments a call does not take.
NoScriptArgs == version = 0 /\ script = <<>> /\ sigScript = <<>>
                /\ bip16 = FALSE /\ class = 0

NoAddressArgs == addr = NoAddress /\ amount = <<0, 0, 0, 0>> /\ limits = 0

NoDataArgs == data = <<>> /\ pubkeys = <<>> /\ nrequired = 0

InitGetScriptClass ==
    /\ fn = "GetScriptClass"
    /\ \/ /\ version = 0
          /\ \E t \in Templates : script \in Mutations(t) \cup {t}
       \/ /\ version = 0
          /\ script \in ShortScripts
       \/ /\ version \in Versions
          /\ script \in Templates \cup ShortScripts
    /\ class = 0
    /\ sigScript = <<>> /\ bip16 = FALSE
    /\ NoAddressArgs /\ NoDataArgs

InitString ==
    /\ fn = "String"
    /\ version = 0
    /\ script = <<>>
    /\ class \in 0..255
    /\ sigScript = <<>> /\ bip16 = FALSE
    /\ NoAddressArgs /\ NoDataArgs

InitCalcScriptInfo ==
    /\ fn = "CalcScriptInfo"
    /\ version = 0
    /\ script \in PkScripts
    /\ sigScript \in SigScripts
    /\ bip16 \in BOOLEAN
    /\ class = 0
    /\ NoAddressArgs /\ NoDataArgs

InitMultisigRedeemScriptFromScriptSig ==
    /\ fn = "MultisigRedeemScriptFromScriptSig"
    /\ version = 0
    /\ script \in SigScripts
    /\ sigScript = <<>> /\ bip16 = FALSE /\ class = 0
    /\ NoAddressArgs /\ NoDataArgs

Init ==
    /\ pc = "call"
    /\ ret = <<>>
    /\ newMemWallet
    /\ \/ InitGetScriptClass
       \/ InitString
       \/ InitCalcScriptInfo
       \/ InitMultisigRedeemScriptFromScriptSig

CallGetScriptClass ==
    /\ pc = "call"
    /\ fn = "GetScriptClass"
    /\ ret' = GetScriptClass(version, script)
    /\ pc' = "done"
    /\ UNCHANGED <<args, wvars>>

CallString ==
    /\ pc = "call"
    /\ fn = "String"
    /\ ret' = String(class)
    /\ pc' = "done"
    /\ UNCHANGED <<args, wvars>>

CallCalcScriptInfo ==
    /\ pc = "call"
    /\ fn = "CalcScriptInfo"
    /\ ret' = CalcScriptInfo(sigScript, script, bip16)
    /\ pc' = "done"
    /\ UNCHANGED <<args, wvars>>

CallMultisigRedeemScriptFromScriptSig ==
    /\ pc = "call"
    /\ fn = "MultisigRedeemScriptFromScriptSig"
    /\ ret' = MultisigRedeemScriptFromScriptSig(script)
    /\ pc' = "done"
    /\ UNCHANGED <<args, wvars>>

Next ==
    \/ CallGetScriptClass
    \/ CallString
    \/ CallCalcScriptInfo
    \/ CallMultisigRedeemScriptFromScriptSig

Spec == Init /\ [][Next]_vars

(***************************************************************************)
(* The calls of the script builders.                                       *)
(***************************************************************************)
AddrBuilders ==
    {"PayToAddrScript", "PayToSStx", "PayToSStxChange", "PayToSSGen",
     "PayToSSRtx"}

DirectBuilders ==
    {"PayToSSGenPKHDirect", "PayToSSGenSHDirect", "PayToSSRtxPKHDirect",
     "PayToSSRtxSHDirect"}

InitAddrBuilders ==
    /\ fn \in AddrBuilders
    /\ addr \in Addresses
    /\ amount = <<0, 0, 0, 0>> /\ limits = 0
    /\ NoScriptArgs /\ NoDataArgs

InitDirectBuilders ==
    /\ fn \in DirectBuilders
    /\ data \in Hash160s
    /\ pubkeys = <<>> /\ nrequired = 0
    /\ NoScriptArgs /\ NoAddressArgs

InitGenerateSStxAddrPush ==
    /\ fn = "GenerateSStxAddrPush"
    /\ addr \in Addresses
    /\ amount \in Amounts
    /\ limits \in Limits
    /\ NoScriptArgs /\ NoDataArgs

InitGenerateProvablyPruneableOut ==
    /\ fn = "GenerateProvablyPruneableOut"
    /\ data \in Payloads
    /\ pubkeys = <<>> /\ nrequired = 0
    /\ NoScriptArgs /\ NoAddressArgs

InitMultiSigScript ==
    /\ fn = "MultiSigScript"
    /\ pubkeys \in PubKeyLists
    /\ nrequired \in -1..(MaxKeys + 1)
    /\ data = <<>>
    /\ NoScriptArgs /\ NoAddressArgs

InitBuild ==
    /\ pc = "call"
    /\ ret = <<>>
    /\ newMemWallet
    /\ \/ InitAddrBuilders
       \/ InitDirectBuilders
       \/ InitGenerateSStxAddrPush
       \/ InitGenerateProvablyPruneableOut
       \/ InitMultiSigScript

CallPayToAddrScript ==
    /\ pc = "call"
    /\ fn = "PayToAddrScript"
    /\ ret' = PayToAddrScript(addr)
    /\ pc' = "done"
    /\ UNCHANGED <<args, wvars>>

CallPayToSStx ==
    /\ pc = "call"
    /\ fn = "PayToSStx"
    /\ ret' = PayToSStx(addr)
    /\ pc' = "done"
    /\ UNCHANGED <<args, wvars>>

CallPayToSStxChange ==
    /\ pc = "call"
    /\ fn = "PayToSStxChange"
    /\ ret' = PayToSStxChange(addr)
    /\ pc' = "done"
    /\ UNCHANGED <<args, wvars>>

CallPayToSSGen ==
    /\ pc = "call"
    /\ fn = "PayToSSGen"
    /\ ret' = PayToSSGen(addr)
    /\ pc' = "done"
    /\ UNCHANGED <<args, wvars>>

CallPayToSSRtx ==
    /\ pc = "call"
    /\ fn = "PayToSSRtx"
    /\ ret' = PayToSSRtx(addr)
    /\ pc' = "done"
    /\ UNCHANGED <<args, wvars>>

CallPayToSSGenPKHDirect ==
    /\ pc = "call"
    /\ fn = "PayToSSGenPKHDirect"
    /\ ret' = PayToSSGenPKHDirect(data)
    /\ pc' = "done"
    /\ UNCHANGED <<args, wvars>>

CallPayToSSGenSHDirect ==
    /\ pc = "call"
    /\ fn = "PayToSSGenSHDirect"
    /\ ret' = PayToSSGenSHDirect(data)
    /\ pc' = "done"
    /\ UNCHANGED <<args, wvars>>

CallPayToSSRtxPKHDirect ==
    /\ pc = "call"
    /\ fn = "PayToSSRtxPKHDirect"
    /\ ret' = PayToSSRtxPKHDirect(data)
    /\ pc' = "done"
    /\ UNCHANGED <<args, wvars>>

CallPayToSSRtxSHDirect ==
    /\ pc = "call"
    /\ fn = "PayToSSRtxSHDirect"
    /\ ret' = PayToSSRtxSHDirect(data)
    /\ pc' = "done"
    /\ UNCHANGED <<args, wvars>>

CallGenerateSStxAddrPush ==
    /\ pc = "call"
    /\ fn = "GenerateSStxAddrPush"
    /\ ret' = GenerateSStxAddrPush(addr, amount, limits)
    /\ pc' = "done"
    /\ UNCHANGED <<args, wvars>>

CallGenerateProvablyPruneableOut ==
    /\ pc = "call"
    /\ fn = "GenerateProvablyPruneableOut"
    /\ ret' = GenerateProvablyPruneableOut(data)
    /\ pc' = "done"
    /\ UNCHANGED <<args, wvars>>

CallMultiSigScript ==
    /\ pc = "call"
    /\ fn = "MultiSigScript"
    /\ ret' = MultiSigScript(pubkeys, nrequired)
    /\ pc' = "done"
    /\ UNCHANGED <<args, wvars>>

NextBuild ==
    \/ CallPayToAddrScript
    \/ CallPayToSStx
    \/ CallPayToSStxChange
    \/ CallPayToSSGen
    \/ CallPayToSSRtx
    \/ CallPayToSSGenPKHDirect
    \/ CallPayToSSGenSHDirect
    \/ CallPayToSSRtxPKHDirect
    \/ CallPayToSSRtxSHDirect
    \/ CallGenerateSStxAddrPush
    \/ CallGenerateProvablyPruneableOut
    \/ CallMultiSigScript

SpecBuild == InitBuild /\ [][NextBuild]_vars

(***************************************************************************)
(* The calls that read a public key script.                                *)
(***************************************************************************)
InitCalcMultiSigStats ==
    /\ fn = "CalcMultiSigStats"
    /\ version = 0
    /\ \/ script \in ShortScripts \cup Templates \cup {ShortScriptTest}
       \/ script \in BuiltMultiSigScripts
       \/ \E t \in MultiSigTemplates : script \in Mutations(t)
    /\ sigScript = <<>> /\ bip16 = FALSE /\ class = 0
    /\ NoAddressArgs /\ NoDataArgs

InitExtractPkScriptAddrs ==
    /\ fn = "ExtractPkScriptAddrs"
    /\ \/ /\ version = 0
          /\ \E t \in Templates : script \in Mutations(t) \cup {t}
       \/ /\ version = 0
          /\ script \in ShortScripts \cup BuiltMultiSigScripts
       \/ /\ version \in Versions
          /\ script \in Templates
    /\ sigScript = <<>> /\ bip16 = FALSE /\ class = 0
    /\ NoAddressArgs /\ NoDataArgs

InitExtract ==
    /\ pc = "call"
    /\ ret = <<>>
    /\ newMemWallet
    /\ \/ InitCalcMultiSigStats
       \/ InitExtractPkScriptAddrs

CallCalcMultiSigStats ==
    /\ pc = "call"
    /\ fn = "CalcMultiSigStats"
    /\ ret' = CalcMultiSigStats(script)
    /\ pc' = "done"
    /\ UNCHANGED <<args, wvars>>

CallExtractPkScriptAddrs ==
    /\ pc = "call"
    /\ fn = "ExtractPkScriptAddrs"
    /\ ret' = ExtractPkScriptAddrs(version, script)
    /\ pc' = "done"
    /\ UNCHANGED <<args, wvars>>

NextExtract ==
    \/ CallCalcMultiSigStats
    \/ CallExtractPkScriptAddrs

SpecExtract == InitExtract /\ [][NextExtract]_vars


(***************************************************************************)
(* The call that reads an atomic swap contract.  The contracts are built   *)
(* on the template of ExtractAtomicSwapDataPushes with operands of every   *)
(* encoding; then one opcode of a contract is replaced, or its end is cut. *)
(***************************************************************************)
SwapNumberOperands ==
    {<<OP_0>>, <<OP_1 + 4>>, <<OP_16>>, <<OP_DATA_1, 17>>, <<OP_DATA_1, 145>>,
     <<2, 32, 1>>, <<3, 224, 147, 4>>, <<5, 1, 2, 3, 4, 5>>}

SwapOtherOperands ==
    {<<OP_DATA_1, 5>>, <<2, 5, 0>>, <<OP_DATA_1, 128>>, <<6, 1, 2, 3, 4, 5, 6>>,
     <<OP_1NEGATE>>, <<OP_DUP>>, <<OP_PUSHDATA1, 1, 17>>, <<OP_PUSHDATA1, 0>>}

SwapContract(secretSize, lockTime, f) ==
    <<OP_IF, OP_SIZE>> \o secretSize \o <<OP_EQUALVERIFY, OP_SHA256>>
    \o <<OP_DATA_32>> \o Rep(32, f) \o <<OP_EQUALVERIFY, OP_DUP, OP_HASH160>>
    \o <<OP_DATA_20>> \o Rep(20, f) \o <<OP_ELSE>> \o lockTime
    \o <<OP_CHECKLOCKTIMEVERIFY, OP_DROP, OP_DUP, OP_HASH160>>
    \o <<OP_DATA_20>> \o Rep(20, 255 - f)
    \o <<OP_ENDIF, OP_EQUALVERIFY, OP_CHECKSIG>>

SwapContracts ==
    {SwapContract(a, b, 17) : a, b \in SwapNumberOperands}

NearSwapContracts ==
    {SwapContract(a, b, 171) :
        a \in SwapOtherOperands, b \in SwapNumberOperands \cup SwapOtherOperands}
    \cup {SwapContract(a, b, 171) :
        a \in SwapNumberOperands, b \in SwapOtherOperands}

ReplacementOpcodes ==
    {OP_0, OP_DATA_1, 2, OP_DATA_20, OP_DATA_32, OP_1, OP_1 + 5, OP_IF, OP_ELSE,
     OP_DUP, OP_EQUALVERIFY, OP_CHECKSIG, OP_CHECKSIGALT}

\* The number of bytes an operation takes in its script.
popSize(pop) ==
    IF pop.data = Nil THEN 1
    ELSE IF pop.opcode < OP_PUSHDATA1 THEN 1 + Len(pop.data)
    ELSE IF pop.opcode = OP_PUSHDATA1 THEN 2 + Len(pop.data)
    ELSE IF pop.opcode = OP_PUSHDATA2 THEN 3 + Len(pop.data)
    ELSE 5 + Len(pop.data)

\* The index in the script of the opcode of its i-th operation.
RECURSIVE opcodeIndex(_, _)
opcodeIndex(pops, i) ==
    IF i = 1 THEN 1 ELSE opcodeIndex(pops, i - 1) + popSize(pops[i - 1])

ReplaceOpcode(s, i, op) ==
    [s EXCEPT ![opcodeIndex(parseScript(s).pops, i)] = op]

InitExtractAtomicSwapDataPushes ==
    /\ fn = "ExtractAtomicSwapDataPushes"
    /\ version \in {0} \cup Versions
    /\ \/ /\ script \in SwapContracts \cup NearSwapContracts
          /\ class = 0 /\ data = <<>>
       \/ \E c \in SwapContracts, i \in 1..20, op \in ReplacementOpcodes :
             /\ version = 0
             /\ op # c[opcodeIndex(parseScript(c).pops, i)]
             /\ script = ReplaceOpcode(c, i, op)
             /\ class = i
             /\ data = c
       \/ \E c \in SwapContracts, n \in 0..30 :
             /\ version = 0
             /\ script = SubSeq(c, 1, Len(c) - n)
             /\ class = 0 /\ data = <<>>
       \/ /\ version = 0
          /\ script \in ShortScripts \cup Templates
          /\ class = 0 /\ data = <<>>
    /\ sigScript = <<>> /\ bip16 = FALSE
    /\ NoAddressArgs /\ pubkeys = <<>> /\ nrequired = 0

InitSwap ==
    /\ pc = "call"
    /\ ret = <<>>
    /\ newMemWallet
    /\ InitExtractAtomicSwapDataPushes

CallExtractAtomicSwapDataPushes ==
    /\ pc = "call"
    /\ fn = "ExtractAtomicSwapDataPushes"
    /\ ret' = ExtractAtomicSwapDataPushes(version, script)
    /\ pc' = "done"
    /\ UNCHANGED <<args, wvars>>

NextSwap == CallExtractAtomicSwapDataPushes

SpecSwap == InitSwap /\ [][NextSwap]_vars


(***************************************************************************)
(* The memWallet of rpctest.  An outpoint is <<transaction hash, index>>;  *)
(* the pkScript of an output is the index of the wallet key whose hash it  *)
(* contains, -1 for a script that contains none.  The callbacks IngestBlock *)
(* and UnwindBlock are called by the node for the block it connects on,    *)
(* or disconnects from, the tip of its main chain.  Each action is one     *)
(* critical section of a handler or of the goroutine chainSyncer.          *)
(***************************************************************************)
MaxIngests == 2
MaxHdIndex == 2

CoinbaseMaturity == 1
spendSize == 1 + 73 + 1 + 33

\* MsgTx.SerializeSize of a transaction whose inputs carry no signature
\* script and whose outputs pay to a public key hash.
SerializeSize(nIn, nOut) == 15 + 58 * nIn + 36 * nOut

CoinbaseTx ==
    [hash |-> 1, coinbase |-> TRUE, ins |-> <<>>,
     outs |-> <<[value |-> 50000, key |-> 0]>>]

FundingTx ==
    [hash |-> 2, coinbase |-> FALSE, ins |-> <<>>,
     outs |-> <<[value |-> 30000, key |-> 0], [value |-> 20000, key |-> 1]>>]

SpendingTx ==
    [hash |-> 3, coinbase |-> FALSE, ins |-> << <<2, 0>> >>,
     outs |-> <<[value |-> 25000, key |-> -1]>>]

Blocks ==
    {<<CoinbaseTx>>, <<FundingTx>>, <<FundingTx, SpendingTx>>, <<SpendingTx>>}

Outpoints == {<<1, 0>>, <<2, 0>>, <<2, 1>>}

Range(f) == {f[x] : x \in DOMAIN f}

\* The hashes of the transactions of the blocks of a chain.
chainTxns(c) == UNION {{b[k].hash : k \in DOMAIN b} : b \in Range(c)}

\* A block the node can connect: its transactions are not in the chain yet
\* and spend outputs of transactions that are in the chain or earlier in
\* the block.
ValidBlock(c, b) ==
    \A k \in DOMAIN b :
        /\ b[k].hash \notin chainTxns(c)
        /\ \A op \in Range(b[k].ins) :
              op[1] \in chainTxns(c) \cup {b[j].hash : j \in 1..(k - 1)}

MapPut(m, k, v) == [x \in DOMAIN m \cup {k} |-> IF x = k THEN v ELSE m[x]]

MapDelete(m, ks) == [x \in DOMAIN m \ ks |-> m[x]]

isMature(u, height) == height >= u.maturityHeight

RECURSIVE evalOutputs(_, _, _, _, _, _)
evalOutputs(w, outputs, txHash, isCoinbase, height, i) ==
    IF i > Len(outputs) THEN w
    ELSE LET output == outputs[i]
             op == <<txHash, i - 1>>
             new == [value |-> output.value,
                     keyIndex |-> output.key,
                     maturityHeight |->
                         IF isCoinbase THEN height + CoinbaseMaturity ELSE 0,
                     isLocked |-> FALSE]
         IN  IF output.key \in addrs
             THEN evalOutputs(
                      [utxos |-> MapPut(w.utxos, op, new),
                       undo |-> [w.undo EXCEPT !.utxosCreated = Append(@, op)]],
                      outputs, txHash, isCoinbase, height, i + 1)
             ELSE evalOutputs(w, outputs, txHash, isCoinbase, height, i + 1)

RECURSIVE evalInputs(_, _, _)
evalInputs(w, inputs, i) ==
    IF i > Len(inputs) THEN w
    ELSE LET op == inputs[i]
         IN  IF op \notin DOMAIN w.utxos THEN evalInputs(w, inputs, i + 1)
             ELSE evalInputs(
                      [utxos |-> MapDelete(w.utxos, {op}),
                       undo |-> [w.undo EXCEPT !.utxosDestroyed =
                                     MapPut(@, op, w.utxos[op])]],
                      inputs, i + 1)

\* The loop of chainSyncer over the transactions of an update.
RECURSIVE evalTxns(_, _, _, _)
evalTxns(w, txns, height, k) ==
    IF k > Len(txns) THEN w
    ELSE LET tx == txns[k]
             created == evalOutputs(w, tx.outs, tx.hash, tx.coinbase, height, 1)
         IN  evalTxns(evalInputs(created, tx.ins, 1), txns, height, k + 1)

\* IngestBlock up to the end of its critical section: the update is
\* appended to the queue.
IngestBlock(filteredTxns) ==
    LET height == Len(chain) + 1
        update == [blockHeight |-> height, filteredTxns |-> filteredTxns,
                   seq |-> hist.appended + 1]
    IN  /\ panicked = ""
        /\ hist.appended < MaxIngests
        /\ ValidBlock(chain, filteredTxns)
        /\ chain' = Append(chain, filteredTxns)
        /\ chainUpdates' = Append(chainUpdates, update)
        /\ ingesting' = ingesting \cup {height}
        /\ hist' = [hist EXCEPT !.appended = @ + 1, !.justApplied = FALSE]
        /\ UNCHANGED <<pc, args, ret, utxos, reorgJournal, chainUpdateSignal,
                       currentHeight, hdIndex, addrs, syncer, panicked>>

IngestBlockSignal_Twice(height) ==
    /\ panicked = ""
    /\ height \in ingesting
    /\ ingesting' = ingesting \ {height}
    /\ chainUpdateSignal' = chainUpdateSignal + 2
    /\ hist' = [hist EXCEPT !.justApplied = FALSE]
    /\ UNCHANGED <<pc, args, ret, utxos, reorgJournal, chainUpdates,
                   currentHeight, hdIndex, addrs, syncer, chain, panicked>>

\* The end of IngestBlock: the goroutine that sends on chainUpdateSignal is
\* started and the call returns.
IngestBlockSignal(height) ==
    /\ panicked = ""
    /\ height \in ingesting
    /\ ingesting' = ingesting \ {height}
    /\ chainUpdateSignal' = chainUpdateSignal + 1
    /\ hist' = [hist EXCEPT !.justApplied = FALSE]
    /\ UNCHANGED <<pc, args, ret, utxos, reorgJournal, chainUpdates, currentHeight,
                   hdIndex, addrs, syncer, chain, panicked>>

\* chainSyncer receives from chainUpdateSignal: one blocked sender goes on.
chainSyncerReceive ==
    /\ panicked = ""
    /\ syncer.pc = "range"
    /\ chainUpdateSignal > 0
    /\ chainUpdateSignal' = chainUpdateSignal - 1
    /\ syncer' = [syncer EXCEPT !.pc = "pop"]
    /\ hist' = [hist EXCEPT !.justApplied = FALSE]
    /\ UNCHANGED <<pc, args, ret, utxos, reorgJournal, chainUpdates, currentHeight,
                   hdIndex, addrs, ingesting, chain, panicked>>

\* chainSyncer pops the front of the queue under chainMtx; reading
\* chainUpdates[0] of an empty queue panics.
chainSyncerPop ==
    /\ panicked = ""
    /\ syncer.pc = "pop"
    /\ IF chainUpdates = <<>>
       THEN /\ panicked' = "index out of range"
            /\ UNCHANGED <<chainUpdates, syncer>>
       ELSE /\ syncer' = [pc |-> "apply", update |-> Head(chainUpdates)]
            /\ chainUpdates' = Tail(chainUpdates)
            /\ UNCHANGED panicked
    /\ hist' = [hist EXCEPT !.dequeued = @ + 1, !.justApplied = FALSE]
    /\ UNCHANGED <<pc, args, ret, utxos, reorgJournal, chainUpdateSignal,
                   currentHeight, hdIndex, addrs, ingesting, chain>>

\* chainSyncer applies the update it holds under the wallet's mutex.
chainSyncerApply ==
    LET update == syncer.update
        undo == [utxosDestroyed |-> <<>>, utxosCreated |-> <<>>]
        w == evalTxns([utxos |-> utxos, undo |-> undo], update.filteredTxns,
                      update.blockHeight, 1)
    IN  /\ panicked = ""
        /\ syncer.pc = "apply"
        /\ currentHeight' = update.blockHeight
        /\ utxos' = w.utxos
        /\ reorgJournal' = MapPut(reorgJournal, update.blockHeight, w.undo)
        /\ syncer' = [pc |-> "range", update |-> update]
        /\ hist' = [hist EXCEPT
                      !.applied = @ + 1,
                      !.before = utxos,
                      !.staleApplied = @ \/ update.seq \in hist.stale,
                      !.justApplied = TRUE]
        /\ UNCHANGED <<pc, args, ret, chainUpdates, chainUpdateSignal, hdIndex, addrs,
                       ingesting, chain, panicked>>

\* UnwindBlock for the tip of the chain, whose IngestBlock has returned.
\* Without an undo entry for the height, undo is nil and undo.utxosCreated
\* panics.
UnwindBlock(height) ==
    /\ panicked = ""
    /\ height >= 1
    /\ height = Len(chain)
    /\ height \notin ingesting
    /\ chain' = SubSeq(chain, 1, height - 1)
    /\ IF height \notin DOMAIN reorgJournal
       THEN /\ panicked' = "nil undo entry"
            /\ UNCHANGED <<utxos, reorgJournal>>
       ELSE LET undo == reorgJournal[height]
                deleted == MapDelete(utxos, Range(undo.utxosCreated))
            IN  /\ utxos' = [op \in DOMAIN deleted \cup DOMAIN undo.utxosDestroyed |->
                                IF op \in DOMAIN undo.utxosDestroyed
                                THEN undo.utxosDestroyed[op] ELSE deleted[op]]
                /\ reorgJournal' = MapDelete(reorgJournal, {height})
                /\ UNCHANGED panicked
    /\ hist' = [hist EXCEPT
                  !.stale = @ \cup {u.seq : u \in {v \in Range(chainUpdates) \cup
                                       (IF syncer.pc = "apply" THEN {syncer.update}
                                        ELSE {}) : v.blockHeight = height}},
                  !.justApplied = FALSE]
    /\ UNCHANGED <<pc, args, ret, chainUpdates, chainUpdateSignal, currentHeight,
                   hdIndex, addrs, syncer, ingesting>>

\* newAddress: the next key of the chain, unless the rpc call that loads it
\* into the transaction filter fails.
newAddress(rpcOk) ==
    IF rpcOk
    THEN [err |-> FALSE, addrs |-> addrs \cup {hdIndex}, hdIndex |-> hdIndex + 1]
    ELSE [err |-> TRUE, addrs |-> addrs, hdIndex |-> hdIndex]

NewAddress(rpcOk) ==
    /\ panicked = ""
    /\ hdIndex < MaxHdIndex
    /\ addrs' = newAddress(rpcOk).addrs
    /\ hdIndex' = newAddress(rpcOk).hdIndex
    /\ hist' = [hist EXCEPT !.justApplied = FALSE]
    /\ UNCHANGED <<pc, args, ret, utxos, reorgJournal, chainUpdates,
                   chainUpdateSignal, currentHeight, syncer, ingesting, chain,
                   panicked>>

\* The utxos fundTx does not skip.
spendable ==
    {op \in DOMAIN utxos :
        isMature(utxos[op], currentHeight) /\ ~utxos[op].isLocked}

\* The orders in which the range over the map can visit the spendable utxos.
visitOrders ==
    {o \in [1..Cardinality(spendable) -> spendable] :
        \A i, j \in DOMAIN o : o[i] = o[j] => i = j}

\* The loop of fundTx over the spendable utxos in one order: whether it
\* funded the transaction, the number of inputs added and the change.
RECURSIVE fundLoop(_, _, _, _, _, _)
fundLoop(order, i, amtSelected, nOut, amt, feeRate) ==
    IF i > Len(order) THEN [funded |-> FALSE, nIn |-> Len(order), change |-> 0]
    ELSE LET selected == amtSelected + utxos[order[i]].value
             txSize == SerializeSize(i, nOut) + spendSize * i
             reqFee == txSize * feeRate
         IN  IF selected - reqFee < amt
             THEN fundLoop(order, i + 1, selected, nOut, amt, feeRate)
             ELSE [funded |-> TRUE, nIn |-> i, change |-> selected - amt - reqFee]

fundTx(order, nOut, amt, feeRate, rpcOk) ==
    LET loop == fundLoop(order, 1, 0, nOut, amt, feeRate)
        change == newAddress(rpcOk)
        ins == {order[i] : i \in 1..loop.nIn}
    IN  IF ~loop.funded
        THEN [err |-> TRUE, ins |-> ins, addrs |-> addrs, hdIndex |-> hdIndex]
        ELSE IF loop.change > 0
        THEN [err |-> change.err, ins |-> ins, addrs |-> change.addrs,
              hdIndex |-> change.hdIndex]
        ELSE [err |-> FALSE, ins |-> ins, addrs |-> addrs, hdIndex |-> hdIndex]

\* CreateTransaction for one output of the amount amt: order is the order
\* of the range over the utxos, signOk whether every input can be signed.
CreateTransaction(amt, feeRate, order, rpcOk, signOk) ==
    LET funded == fundTx(order, 1, amt, feeRate, rpcOk)
        failed == funded.err \/ ~signOk
    IN  /\ panicked = ""
        /\ funded.hdIndex <= MaxHdIndex
        /\ addrs' = funded.addrs
        /\ hdIndex' = funded.hdIndex
        /\ utxos' = IF failed THEN utxos
                    ELSE [op \in DOMAIN utxos |->
                             IF op \in funded.ins
                             THEN [utxos[op] EXCEPT !.isLocked = TRUE]
                             ELSE utxos[op]]
        /\ hist' = [hist EXCEPT
                      !.tx = [err |-> failed,
                              ins |-> IF failed THEN {} ELSE funded.ins],
                      !.spent = IF failed THEN @ ELSE @ \cup funded.ins,
                      !.justApplied = FALSE]
        /\ UNCHANGED <<pc, args, ret, reorgJournal, chainUpdates, chainUpdateSignal,
                       currentHeight, syncer, ingesting, chain, panicked>>

UnlockOutputs(inputs) ==
    /\ panicked = ""
    /\ utxos' = [op \in DOMAIN utxos |->
                    IF op \in inputs THEN [utxos[op] EXCEPT !.isLocked = FALSE]
                    ELSE utxos[op]]
    /\ hist' = [hist EXCEPT !.spent = @ \ inputs, !.justApplied = FALSE]
    /\ UNCHANGED <<pc, args, ret, reorgJournal, chainUpdates, chainUpdateSignal,
                   currentHeight, hdIndex, addrs, syncer, ingesting, chain, panicked>>

Amts == {30000, 60000}
FeeRates == {0, 10}

NoCall ==
    /\ pc = "done" /\ fn = "" /\ ret = <<>>
    /\ NoScriptArgs /\ NoAddressArgs /\ NoDataArgs

InitWallet == NoCall /\ newMemWallet

NextWallet ==
    \/ \E b \in Blocks : IngestBlock(b)
    \/ \E h \in 1..MaxIngests : IngestBlockSignal(h)
    \/ chainSyncerReceive
    \/ chainSyncerPop
    \/ chainSyncerApply
    \/ \E h \in 1..MaxIngests : UnwindBlock(h)
    \/ \E rpcOk \in BOOLEAN : NewAddress(rpcOk)
    \/ \E amt \in Amts, feeRate \in FeeRates, order \in visitOrders,
          rpcOk, signOk \in BOOLEAN :
          CreateTransaction(amt, feeRate, order, rpcOk, signOk)
    \/ \E inputs \in {hist.tx.ins} \cup {{op} : op \in Outpoints} :
          UnlockOutputs(inputs)

SpecWallet == InitWallet /\ [][NextWallet]_vars

(***************************************************************************)
(* The staged stdscript package (src/internal/staging/stdscript): the      *)
(* version 0 matchers of the public key scripts, written against the       *)
(* exported helpers of txscript.                                           *)
(***************************************************************************)
STNonStandard == 0
STPubKeyEcdsaSecp256k1 == 1
STPubKeyEd25519 == 2
STPubKeySchnorrSecp256k1 == 3

IsSmallInt(op) == op = OP_0 \/ (op >= OP_1 /\ op <= OP_16)

AsSmallInt(op) == IF op = OP_0 THEN 0 ELSE (op + 256 - (OP_1 - 1)) % 256

IsStrictCompressedPubKeyEncoding(pubKey) ==
    Len(pubKey) = 33 /\ (pubKey[1] = 2 \/ pubKey[1] = 3)

ExtractCompressedPubKeyV0(scriptArg) ==
    IF /\ Len(scriptArg) = 35
       /\ scriptArg[35] = OP_CHECKSIG
       /\ scriptArg[1] = OP_DATA_33
       /\ (scriptArg[2] = 2 \/ scriptArg[2] = 3)
    THEN Slice(scriptArg, 1, 34)
    ELSE Nil

ExtractUncompressedPubKeyV0(scriptArg) ==
    IF /\ Len(scriptArg) = 67
       /\ scriptArg[67] = OP_CHECKSIG
       /\ scriptArg[1] = OP_DATA_65
       /\ scriptArg[2] = 4
    THEN Slice(scriptArg, 1, 66)
    ELSE Nil

ExtractPubKeyV0(scriptArg) ==
    IF ExtractCompressedPubKeyV0(scriptArg) # Nil
    THEN ExtractCompressedPubKeyV0(scriptArg)
    ELSE ExtractUncompressedPubKeyV0(scriptArg)

IsPubKeyScriptV0(scriptArg) == ExtractPubKeyV0(scriptArg) # Nil

\* ExtractPubKeyAltDetailsV0 without the strict encoding of the key.
ExtractPubKeyAltDetailsV0_AnyKey(scriptArg) ==
    IF Len(scriptArg) < 3 \/ scriptArg[Len(scriptArg)] # OP_CHECKSIGALT
    THEN [pk |-> Nil, sigType |-> 0]
    ELSE IF /\ Len(scriptArg) = 35
            /\ scriptArg[1] = OP_DATA_32
            /\ IsSmallInt(scriptArg[34])
            /\ AsSmallInt(scriptArg[34]) = STEd25519
    THEN [pk |-> Slice(scriptArg, 1, 33), sigType |-> STEd25519]
    ELSE IF /\ Len(scriptArg) = 36
            /\ scriptArg[1] = OP_DATA_33
            /\ IsSmallInt(scriptArg[35])
            /\ AsSmallInt(scriptArg[35]) = STSchnorrSecp256k1
    THEN [pk |-> Slice(scriptArg, 1, 34), sigType |-> STSchnorrSecp256k1]
    ELSE [pk |-> Nil, sigType |-> 0]

ExtractPubKeyAltDetailsV0(scriptArg) ==
    IF Len(scriptArg) < 3 \/ scriptArg[Len(scriptArg)] # OP_CHECKSIGALT
    THEN [pk |-> Nil, sigType |-> 0]
    ELSE IF /\ Len(scriptArg) = 35
            /\ scriptArg[1] = OP_DATA_32
            /\ IsSmallInt(scriptArg[34])
            /\ AsSmallInt(scriptArg[34]) = STEd25519
    THEN [pk |-> Slice(scriptArg, 1, 33), sigType |-> STEd25519]
    ELSE IF /\ Len(scriptArg) = 36
            /\ scriptArg[1] = OP_DATA_33
            /\ IsSmallInt(scriptArg[35])
            /\ AsSmallInt(scriptArg[35]) = STSchnorrSecp256k1
            /\ IsStrictCompressedPubKeyEncoding(Slice(scriptArg, 1, 34))
    THEN [pk |-> Slice(scriptArg, 1, 34), sigType |-> STSchnorrSecp256k1]
    ELSE [pk |-> Nil, sigType |-> 0]

IsPubKeyEd25519ScriptV0(scriptArg) ==
    /\ ExtractPubKeyAltDetailsV0(scriptArg).pk # Nil
    /\ ExtractPubKeyAltDetailsV0(scriptArg).sigType = STEd25519

IsPubKeySchnorrSecp256k1ScriptV0(scriptArg) ==
    /\ ExtractPubKeyAltDetailsV0(scriptArg).pk # Nil
    /\ ExtractPubKeyAltDetailsV0(scriptArg).sigType = STSchnorrSecp256k1

DetermineScriptTypeV0(scriptArg) ==
    IF IsPubKeyScriptV0(scriptArg) THEN STPubKeyEcdsaSecp256k1
    ELSE IF IsPubKeyEd25519ScriptV0(scriptArg) THEN STPubKeyEd25519
    ELSE IF IsPubKeySchnorrSecp256k1ScriptV0(scriptArg)
    THEN STPubKeySchnorrSecp256k1
    ELSE STNonStandard

\* The byte strings the matchers are called with: the standard templates,
\* every one-byte change, truncation and extension of the public key
\* templates, and the short strings.
StdScripts ==
    PkScripts \cup ShortScripts
    \cup UNION {Mutations(t) : t \in P2PKTemplates \cup P2PKAltTemplates}

InitStd ==
    /\ pc = "call"
    /\ ret = <<>>
    /\ newMemWallet
    /\ fn \in {"ExtractPubKeyV0", "ExtractPubKeyAltDetailsV0",
               "DetermineScriptTypeV0"}
    /\ version = 0
    /\ script \in StdScripts
    /\ sigScript = <<>> /\ bip16 = FALSE /\ class = 0
    /\ NoAddressArgs /\ NoDataArgs

CallExtractPubKeyV0 ==
    /\ pc = "call"
    /\ fn = "ExtractPubKeyV0"
    /\ ret' = ExtractPubKeyV0(script)
    /\ pc' = "done"
    /\ UNCHANGED <<args, wvars>>

CallExtractPubKeyAltDetailsV0 ==
    /\ pc = "call"
    /\ fn = "ExtractPubKeyAltDetailsV0"
    /\ ret' = ExtractPubKeyAltDetailsV0(script)
    /\ pc' = "done"
    /\ UNCHANGED <<args, wvars>>

CallDetermineScriptTypeV0 ==
    /\ pc = "call"
    /\ fn = "DetermineScriptTypeV0"
    /\ ret' = DetermineScriptTypeV0(script)
    /\ pc' = "done"
    /\ UNCHANGED <<args, wvars>>

NextStd ==
    \/ CallExtractPubKeyV0
    \/ CallExtractPubKeyAltDetailsV0
    \/ CallDetermineScriptTypeV0

SpecStd == InitStd /\ [][NextStd]_vars


(***************************************************************************)
(* Claims.                                                                 *)
(***************************************************************************)
Classified == pc = "done" /\ fn = "GetScriptClass"

ScriptClasses == 0..11

\* The eight byte-level checks in the order the specification lists them.
C1_Checks(s) ==
    << <<isPubKeyScript(s), PubKeyTy>>,
       <<isPubKeyAltScript(s), PubkeyAltTy>>,
       <<isPubKeyHashScript(s), PubKeyHashTy>>,
       <<isPubKeyHashAltScript(s), PubkeyHashAltTy>>,
       <<isScriptHashScript(s), ScriptHashTy>>,
       <<isMultisigScript(0, s), MultiSigTy>>,
       <<isNullDataScript(0, s), NullDataTy>>,
       <<isStakeSubmissionScript(0, s), StakeSubmissionTy>> >>

C1_Matching(s) == {i \in 1..8 : C1_Checks(s)[i][1]}

C1_First(s) == CHOOSE i \in C1_Matching(s) : \A j \in C1_Matching(s) : i <= j

\* C1: for a version 0 script GetScriptClass returns the class of the first
\* matching check in the order pubkey, pubkey-alt, pubkey-hash,
\* pubkey-hash-alt, script-hash, multisig, null-data, stake submission; when
\* none matches and the script parses, the stake generation, revocation or
\* change class whose pattern the decoded operations match; NonStandardTy in
\* every other case.
C1_PriorityOrder ==
    (Classified /\ version = 0) =>
        IF C1_Matching(script) # {}
        THEN ret = C1_Checks(script)[C1_First(script)][2]
        ELSE LET parsed == parseScript(script)
             IN  IF parsed.err THEN ret = NonStandardTy
                 ELSE /\ isStakeGen(parsed.pops) => ret = StakeGenTy
                      /\ isStakeRevocation(parsed.pops) => ret = StakeRevocationTy
                      /\ isSStxChange(parsed.pops) => ret = StakeSubChangeTy
                      /\ (~isStakeGen(parsed.pops) /\ ~isStakeRevocation(parsed.pops)
                            /\ ~isSStxChange(parsed.pops)) => ret = NonStandardTy

C1_Witness ==
    /\ Classified /\ version = 0
    /\ C1_Matching(script) = {}
    /\ ret = StakeRevocationTy

\* C2: for every script version other than 0 GetScriptClass returns
\* NonStandardTy, whatever the script is.
C2_OtherVersionsNonStandard ==
    (Classified /\ version # 0) => ret = NonStandardTy

C2_Witness ==
    /\ Classified /\ version # 0
    /\ isPubKeyHashScript(script)
    /\ ret = NonStandardTy

\* C3: GetScriptClass returns a ScriptClass for every byte string, and
\* NonStandardTy for every script that fails to parse.
C3_TotalAndUnparseableNonStandard ==
    Classified =>
        /\ ret \in ScriptClasses
        /\ parseScript(script).err => ret = NonStandardTy

C3_Witness ==
    /\ Classified /\ version = 0
    /\ parseScript(script).err
    /\ Len(script) = 25 /\ script[1] = OP_DUP /\ script[25] = OP_CHECKSIG
    /\ ret = NonStandardTy

C4_Names ==
    [c \in ScriptClasses |->
        CASE c = NonStandardTy -> "nonstandard"
          [] c = PubKeyTy -> "pubkey"
          [] c = PubkeyAltTy -> "pubkeyalt"
          [] c = PubKeyHashTy -> "pubkeyhash"
          [] c = PubkeyHashAltTy -> "pubkeyhashalt"
          [] c = ScriptHashTy -> "scripthash"
          [] c = MultiSigTy -> "multisig"
          [] c = NullDataTy -> "nulldata"
          [] c = StakeSubmissionTy -> "stakesubmission"
          [] c = StakeGenTy -> "stakegen"
          [] c = StakeRevocationTy -> "stakerevoke"
          [] c = StakeSubChangeTy -> "sstxchange"]

\* C4: ScriptClass.String returns the name of each of the 12 defined classes
\* and "Invalid" for every other byte value (12..255), without aborting.
C4_StringTotal ==
    (pc = "done" /\ fn = "String") =>
        ret = IF class \in ScriptClasses THEN C4_Names[class] ELSE "Invalid"

\* C5: a version 0 script that decodes to fewer than 4 operations is never
\* recognised as multisig, neither by isMultisigScript nor by GetScriptClass.
C5_ShortNeverMultisig ==
    (Classified /\ version = 0 /\ ~parseScript(script).err
        /\ Len(parseScript(script).pops) < 4) =>
        /\ ~isMultisigScript(0, script)
        /\ ret # MultiSigTy

\* <small int> <k strictly encoded keys> <small int equal to k>
\* OP_CHECKMULTISIG, read from the fully decoded operations.
C6_Shape(s) ==
    LET parsed == parseScript(s)
        pops == parsed.pops
        n == Len(pops)
    IN  /\ ~parsed.err
        /\ n >= 3
        /\ isSmallInt(pops[1].opcode)
        /\ \A i \in 2..(n - 2) : isStrictPubKeyEncoding(pops[i].data)
        /\ isSmallInt(pops[n - 1].opcode)
        /\ asSmallInt(pops[n - 1].opcode) = n - 3
        /\ pops[n].opcode = OP_CHECKMULTISIG

\* <small int> <k strictly encoded keys> <small int different from k> ...
C6_CountMismatch(s) ==
    LET parsed == parseScript(s)
        pops == parsed.pops
    IN  /\ ~parsed.err
        /\ \E k \in 0..(Len(pops) - 2) :
              /\ isSmallInt(pops[1].opcode)
              /\ \A i \in 2..(k + 1) : isStrictPubKeyEncoding(pops[i].data)
              /\ isSmallInt(pops[k + 2].opcode)
              /\ asSmallInt(pops[k + 2].opcode) # k

\* C6: extractMultisigScriptDetails reports a script as valid only when it is
\* a small integer, k pushes of strictly encoded public keys, the small
\* integer k and one last byte OP_CHECKMULTISIG, and then reports k keys and
\* the first small integer as the required signatures; a script whose
\* key-count opcode differs from the number of key pushes before it is
\* classified NonStandardTy.
C6_MultisigShape ==
    (Classified /\ version = 0) =>
        LET details == extractMultisigScriptDetails(0, script, TRUE)
        IN  /\ details.valid =>
                /\ C6_Shape(script)
                /\ details.numPubKeys = Len(parseScript(script).pops) - 3
                /\ details.requiredSigs = asSmallInt(script[1])
            /\ C6_CountMismatch(script) => ret = NonStandardTy

C6_Witness ==
    /\ Classified /\ version = 0
    /\ extractMultisigScriptDetails(0, script, TRUE).valid
    /\ extractMultisigScriptDetails(0, script, TRUE).numPubKeys = 2
    /\ ret = MultiSigTy

\* OP_RETURN alone, or OP_RETURN and exactly one small integer or data push
\* of at most MaxDataCarrierSize bytes.
C7_Shape(s) ==
    /\ Len(s) >= 1
    /\ s[1] = OP_RETURN
    /\ \/ Len(s) = 1
       \/ LET parsed == parseScript(Tail(s))
          IN  /\ ~parsed.err
              /\ Len(parsed.pops) = 1
              /\ \/ isSmallInt(parsed.pops[1].opcode)
                 \/ parsed.pops[1].opcode <= OP_PUSHDATA4
              /\ dataLen(parsed.pops[1].data) <= MaxDataCarrierSize

\* C7: isNullDataScript accepts a version 0 script exactly when it is
\* OP_RETURN alone or OP_RETURN and one small integer or data push of at most
\* MaxDataCarrierSize bytes; such a script classifies NullDataTy, and a script
\* that starts with OP_RETURN and is not of that shape (a longer push, an
\* extra operation) classifies NonStandardTy.
C7_NullDataExact ==
    (Classified /\ version = 0) =>
        /\ isNullDataScript(0, script) <=> C7_Shape(script)
        /\ C7_Shape(script) => ret = NullDataTy
        /\ (Len(script) >= 1 /\ script[1] = OP_RETURN /\ ~C7_Shape(script))
              => ret = NonStandardTy

C7_Witness ==
    /\ Classified /\ version = 0
    /\ Len(script) = MaxDataCarrierSize + 4
    /\ script[2] = OP_PUSHDATA2
    /\ dataLen(parseScript(Tail(script)).pops[1].data) = MaxDataCarrierSize
    /\ ret = NullDataTy

\* C8: CalcScriptInfo never aborts: for every signature script, public key
\* script and bip16 flag it returns a ScriptInfo or an error.
C8_CalcScriptInfoNeverAborts ==
    (pc = "done" /\ fn = "CalcScriptInfo") => ~ret.panic

\* C9: for a public key script classified MultiSigTy the expected-input
\* count of CalcScriptInfo is the required-signature count of the script's
\* first opcode plus one.
C9_MultisigExpectedInputs ==
    (pc = "done" /\ fn = "CalcScriptInfo" /\ ~ret.panic /\ ret.err = ""
        /\ ret.PkScriptClass = MultiSigTy) =>
        ret.ExpectedInputs = asSmallInt(script[1]) + 1

\* Byte i (0..7) of the little-endian encoding of an amount.
C10_AmountByte(limbs, i) ==
    IF i % 2 = 0 THEN limbs[(i \div 2) + 1] % 256 ELSE limbs[(i \div 2) + 1] \div 256

\* C10: GenerateSStxAddrPush returns OP_RETURN and one 30-byte push: the
\* address hash, the amount in little-endian and the limits in little-endian;
\* for a script-hash address the top bit of payload byte 29 is set and no
\* amount byte differs from the encoding of the amount; for a pubkey-hash
\* address no bit is altered.
C10_AddrPushLayout ==
    (pc = "done" /\ fn = "GenerateSStxAddrPush" /\ ret.err = "") =>
        LET payload == SubSeq(ret.script, 3, Len(ret.script))
        IN  /\ Len(ret.script) = 32
            /\ ret.script[1] = OP_RETURN
            /\ ret.script[2] = 30
            /\ SubSeq(payload, 1, 20) = addr.hash
            /\ \A i \in 0..7 : payload[21 + i] = C10_AmountByte(amount, i)
            /\ payload[29] = limits % 256
            /\ payload[30] = IF addr.type = "AddressScriptHash"
                             THEN ((limits \div 256) % 128) + 128
                             ELSE limits \div 256

(***************************************************************************)
(* The script builders.                                                    *)
(***************************************************************************)
Built(name) == pc = "done" /\ fn = name

HashAddressTypes == {"AddressPubKeyHash", "AddressScriptHash"}

\* The class a hash builder is to produce, from the builder and, when it
\* takes an address, the address.
C11_ExpectedClass ==
    LET base == IF fn \in DirectBuilders
                THEN IF fn \in {"PayToSSGenPKHDirect", "PayToSSRtxPKHDirect"}
                     THEN PubKeyHashTy ELSE ScriptHashTy
                ELSE IF addr.type = "AddressScriptHash" THEN ScriptHashTy
                ELSE IF addr.dsa = STEcdsaSecp256k1 THEN PubKeyHashTy
                ELSE PubkeyHashAltTy
    IN  CASE fn = "PayToAddrScript" -> base
          [] fn = "PayToSStx" -> StakeSubmissionTy
          [] fn \in {"PayToSSGen", "PayToSSGenPKHDirect",
                     "PayToSSGenSHDirect"} -> StakeGenTy
          [] fn \in {"PayToSSRtx", "PayToSSRtxPKHDirect",
                     "PayToSSRtxSHDirect"} -> StakeRevocationTy
          [] fn = "PayToSStxChange" -> StakeSubChangeTy

\* The hashes the extractors of the file find in a script.
C11_ExtractedHashes(s) ==
    {extractPubKeyHash(s), extractPubKeyHashAltDetails(s).pk,
     extractScriptHash(s)}
    \cup (IF Len(s) > 0
          THEN {extractStakePubKeyHash(s, s[1]),
                extractStakeScriptHash(s, s[1])}
          ELSE {})

C11_Built ==
    /\ pc = "done"
    /\ fn \in AddrBuilders \cup DirectBuilders
    /\ fn \in AddrBuilders => addr.type \in HashAddressTypes
    /\ ret.err = ""

\* C11: the script a hash builder returns for a 20-byte hash h classifies as
\* the class of the builder (pubkey hash, pubkey hash alt with the scheme of
\* the builder, script hash, or the stake class of the stake builder), and
\* the hash extracted from the script is h.
C11_HashBuildersRoundTrip ==
    C11_Built =>
        LET h == IF fn \in DirectBuilders THEN data ELSE addr.hash
        IN  /\ Len(h) = 20
            /\ GetScriptClass(0, ret.script) = C11_ExpectedClass
            /\ C11_ExtractedHashes(ret.script) \ {Nil} = {h}
            /\ C11_ExpectedClass = PubkeyHashAltTy =>
                   extractPubKeyHashAltDetails(ret.script).sigType = addr.dsa

C11_Witness ==
    /\ C11_Built
    /\ fn = "PayToAddrScript"
    /\ addr.type = "AddressPubKeyHash"
    /\ addr.dsa = STSchnorrSecp256k1
    /\ GetScriptClass(0, ret.script) = PubkeyHashAltTy
    /\ extractPubKeyHashAltDetails(ret.script).sigType = STSchnorrSecp256k1

\* C12: for every payload of 0 to MaxDataCarrierSize bytes, every one-byte
\* payload included, the script GenerateProvablyPruneableOut returns
\* classifies as NullDataTy.
C12_NullDataRoundTrip ==
    (Built("GenerateProvablyPruneableOut") /\ Len(data) <= MaxDataCarrierSize)
        => /\ ret.err = ""
           /\ GetScriptClass(0, ret.script) = NullDataTy

\* The push of a number as the script shows it.
C13_NumberPush(n) ==
    IF n = -1 THEN <<OP_1NEGATE>>
    ELSE IF n <= 16 THEN <<SmallIntOp(n)>>
    ELSE <<OP_DATA_1, n>>

\* C13: MultiSigScript returns ErrTooManyRequiredSigs and no script exactly
\* when nrequired is larger than the number of keys; otherwise it returns
\* <nrequired> <key 1> ... <key n> <n> OP_CHECKMULTISIG, keys in order.
C13_MultiSigScriptForm ==
    Built("MultiSigScript") =>
        LET n == Len(pubkeys)
            m == Len(C13_NumberPush(nrequired))
            s == ret.script
        IN  IF nrequired > n
            THEN ret = [err |-> "ErrTooManyRequiredSigs", script |-> Nil]
            ELSE /\ ret.err = ""
                 /\ Len(s) = m + 34 * n + Len(C13_NumberPush(n)) + 1
                 /\ SubSeq(s, 1, m) = C13_NumberPush(nrequired)
                 /\ \A i \in 1..n :
                        SubSeq(s, m + 34 * (i - 1) + 1, m + 34 * i)
                            = <<OP_DATA_33>> \o pubkeys[i]
                 /\ SubSeq(s, m + 34 * n + 1, Len(s))
                        = C13_NumberPush(n) \o <<OP_CHECKMULTISIG>>

C13_Witness ==
    /\ Built("MultiSigScript")
    /\ Len(pubkeys) = 2
    /\ pubkeys[1] # pubkeys[2]
    /\ nrequired = 2
    /\ ret.err = ""

\* C14: a script MultiSigScript returns without error for at most 16 valid
\* compressed keys classifies as MultiSigTy, and CalcMultiSigStats on it
\* returns the number of keys and nrequired, without error.
C14_MultiSigRoundTrip ==
    (/\ Built("MultiSigScript")
     /\ ret.err = ""
     /\ Len(pubkeys) <= 16
     /\ \A i \in 1..Len(pubkeys) : ParsePubKey(pubkeys[i]) # Nil)
        => /\ GetScriptClass(0, ret.script) = MultiSigTy
           /\ CalcMultiSigStats(ret.script)
                = [numPubKeys |-> Len(pubkeys), requiredSigs |-> nrequired,
                   err |-> ""]

(***************************************************************************)
(* The readers of a public key script.                                     *)
(***************************************************************************)
Extracted == pc = "done" /\ fn = "ExtractPkScriptAddrs"

\* C15: CalcMultiSigStats returns an ErrNotMultisigScript error for every
\* script that fails to parse or has fewer than 4 operations, and for a
\* standard multisig script no error, numPubKeys from the second-to-last
\* operation and requiredSigs from the first.
C15_CalcMultiSigStats ==
    (pc = "done" /\ fn = "CalcMultiSigStats") =>
        LET parsed == parseScript(script)
            n == Len(parsed.pops)
        IN  /\ (parsed.err \/ n < 4) => ret.err = "ErrNotMultisigScript"
            /\ GetScriptClass(0, script) = MultiSigTy =>
                   /\ ret.err = ""
                   /\ ret.numPubKeys = asSmallInt(parsed.pops[n - 1].opcode)
                   /\ ret.requiredSigs = asSmallInt(parsed.pops[1].opcode)

\* C16: ExtractPkScriptAddrs returns an error with NonStandardTy, no
\* address and 0 required signatures when the version is not 0 or the
\* script fails to parse, and no error for every version-0 script that
\* parses.
C16_ExtractErrors ==
    Extracted =>
        IF version # 0 \/ parseScript(script).err
        THEN /\ ret.err # ""
             /\ ret.class = NonStandardTy
             /\ ret.addrs = <<>>
             /\ ret.requiredSigs = 0
        ELSE ret.err = ""

C16_Witness ==
    /\ Extracted
    /\ version # 0
    /\ ~parseScript(script).err
    /\ typeOfScript(0, script) = PubKeyHashTy
    /\ ret.err # ""

SingleSigClasses ==
    {PubKeyTy, PubkeyAltTy, PubKeyHashTy, PubkeyHashAltTy, ScriptHashTy}

\* C17: for a version-0 script that parses, ExtractPkScriptAddrs returns
\* the class GetScriptClass returns; no address and 0 required signatures
\* for NullDataTy and NonStandardTy; 1 required signature and at most one
\* address for the pubkey, pubkey hash, their alt forms and script hash.
C17_ClassAndSigs ==
    (Extracted /\ version = 0 /\ ~parseScript(script).err) =>
        /\ ret.class = GetScriptClass(0, script)
        /\ ret.class \in {NullDataTy, NonStandardTy} =>
               ret.requiredSigs = 0 /\ ret.addrs = <<>>
        /\ ret.class \in SingleSigClasses =>
               ret.requiredSigs = 1 /\ Len(ret.addrs) <= 1

C17_Witness ==
    /\ Extracted
    /\ version = 0
    /\ ret.class = ScriptHashTy
    /\ ret.requiredSigs = 1
    /\ Len(ret.addrs) = 1

\* C18: for a script classified MultiSigTy, requiredSigs is the small
\* integer of the first opcode and the addresses are those of the embedded
\* keys that parse as valid keys, in script order, the invalid ones skipped.
C18_MultiSigAddrs ==
    (Extracted /\ version = 0 /\ GetScriptClass(0, script) = MultiSigTy) =>
        LET keys == extractMultisigScriptDetails(0, script, TRUE).pubKeys
            valid == {i \in 1..Len(keys) : ParsePubKey(keys[i]) # Nil}
            rank(i) == Cardinality({j \in valid : j <= i})
        IN  /\ ret.class = MultiSigTy
            /\ ret.requiredSigs = asSmallInt(script[1])
            /\ Len(keys) = asSmallInt(script[Len(script) - 1])
            /\ Len(ret.addrs) = Cardinality(valid)
            /\ \A i \in valid :
                   ret.addrs[rank(i)]
                       = Address("AddressSecpPubKey", 0, ParsePubKey(keys[i]))

C18_Witness ==
    /\ Extracted
    /\ version = 0
    /\ ret.class = MultiSigTy
    /\ LET keys == extractMultisigScriptDetails(0, script, TRUE).pubKeys
       IN  /\ Len(keys) = 2
           /\ ParsePubKey(keys[1]) = Nil
           /\ ParsePubKey(keys[2]) # Nil
    /\ Len(ret.addrs) = 1

\* C19: for a script of a stake class, ExtractPkScriptAddrs makes one
\* recursive call, on the script without its first byte; that script is
\* classified PubKeyHashTy or ScriptHashTy; the outer call returns the stake
\* class with the addresses and requiredSigs of the inner call.
C19_StakeRecursion ==
    (Extracted /\ version = 0 /\ GetScriptClass(0, script) \in StakeClasses)
        => LET inner == Tail(script)
               innerClass == GetScriptClass(0, inner)
               hash == IF innerClass = PubKeyHashTy
                       THEN Slice(inner, 3, 23) ELSE Slice(inner, 2, 22)
               variant == IF innerClass = PubKeyHashTy
                          THEN "AddressPubKeyHash" ELSE "AddressScriptHash"
           IN  /\ ret.calls = <<inner>>
               /\ innerClass \in {PubKeyHashTy, ScriptHashTy}
               /\ ret.class = GetScriptClass(0, script)
               /\ ret.err = ""
               /\ ret.requiredSigs = 1
               /\ ret.addrs = <<Address(variant, 0, hash)>>

C19_Witness ==
    /\ Extracted
    /\ version = 0
    /\ ret.class = StakeRevocationTy
    /\ GetScriptClass(0, Tail(script)) = ScriptHashTy
    /\ ret.calls = <<Tail(script)>>
    /\ Len(ret.addrs) = 1

\* An address a builder does not support.
C20_Unsupported ==
    \/ addr.type \in {"nil", "AddressOther"}
    \/ addr.isNil
    \/ fn # "PayToAddrScript" /\ addr.type \notin HashAddressTypes
    \/ /\ fn # "PayToAddrScript"
       /\ addr.type = "AddressPubKeyHash"
       /\ addr.dsa # STEcdsaSecp256k1

\* C20: an address-taking builder returns ErrUnsupportedAddress and no
\* script when the address is absent, a nil pointer or of a variant the
\* builder does not support; for the stake builders a pubkey-hash address
\* of a scheme other than ECDSA-secp256k1 is such a variant.
C20_UnsupportedAddress ==
    (/\ pc = "done"
     /\ fn \in AddrBuilders \cup {"GenerateSStxAddrPush"}
     /\ C20_Unsupported)
        => ret = [err |-> "ErrUnsupportedAddress", script |-> Nil]

C20_Witness ==
    /\ Built("PayToSSGen")
    /\ addr.type = "AddressPubKeyHash"
    /\ ~addr.isNil
    /\ addr.dsa = STEd25519
    /\ ret.err = "ErrUnsupportedAddress"


(***************************************************************************)
(* C21: when CalcScriptInfo returns a result, NumInputs is the number of   *)
(* operations of the signature script; when the pkScript, or the script    *)
(* after the tag of a stake-tagged pkScript, is pay-to-script-hash and     *)
(* bip16 is set, the redeem script is the data of the last operation of    *)
(* the signature script, ExpectedInputs is 1 + expectedInputs(redeem       *)
(* script), or -1 when that is -1, and SigOps is counted on the redeem     *)
(* script; otherwise ExpectedInputs and SigOps come from the pkScript      *)
(* alone.                                                                  *)
(***************************************************************************)
C21_Returned ==
    pc = "done" /\ fn = "CalcScriptInfo" /\ ~ret.panic /\ ret.err = ""

C21_IsScriptHash ==
    \/ isScriptHashScript(script)
    \/ /\ Len(script) > 0
       /\ script[1] \in StakeOpcodes
       /\ typeOfScript(0, script) \in StakeClasses
       /\ isScriptHashScript(Tail(script))

C21_Redeem ==
    LET sigPops == parseScript(sigScript).pops
    IN  bytesOf(sigPops[Len(sigPops)].data)

C21_RedeemInputs ==
    expectedInputs(parseScript(C21_Redeem).pops,
                   typeOfScript(0, C21_Redeem), 0)

C21_ScriptHashInfo ==
    C21_Returned =>
        /\ ret.NumInputs = Len(parseScript(sigScript).pops)
        /\ IF C21_IsScriptHash /\ bip16
           THEN /\ ret.ExpectedInputs =
                       IF C21_RedeemInputs = -1 THEN -1
                       ELSE 1 + C21_RedeemInputs
                /\ ret.SigOps = getSigOpCount(parseScript(C21_Redeem).pops)
           ELSE /\ ret.ExpectedInputs =
                       expectedInputs(parseScript(script).pops,
                                      typeOfScript(0, script),
                                      IF typeOfScript(0, script) \in StakeClasses
                                      THEN typeOfScript(0, Tail(script)) ELSE 0)
                /\ ret.SigOps = getSigOpCount(parseScript(script).pops)

C21_Witness ==
    /\ C21_Returned /\ C21_IsScriptHash /\ bip16
    /\ script[1] \in StakeOpcodes
    /\ isMultisigScript(0, C21_Redeem)
    /\ ret.ExpectedInputs = 1 + C21_RedeemInputs
    /\ ret.SigOps > 0
    /\ ret.SigOps # getSigOpCount(parseScript(script).pops)

(***************************************************************************)
(* C22: ExtractAtomicSwapDataPushes returns an error exactly when the      *)
(* script does not tokenize, and returns neither pushes nor an error for   *)
(* every script that tokenizes and is not the 20-operation contract, whose *)
(* two operands are each a small integer opcode or the push of a minimally *)
(* encoded number of at most 5 bytes.                                      *)
(***************************************************************************)
SwapExtracted == pc = "done" /\ fn = "ExtractAtomicSwapDataPushes"

C22_FixedOpcodes ==
    <<OP_IF, OP_SIZE, -1, OP_EQUALVERIFY, OP_SHA256, OP_DATA_32,
      OP_EQUALVERIFY, OP_DUP, OP_HASH160, OP_DATA_20, OP_ELSE, -1,
      OP_CHECKLOCKTIMEVERIFY, OP_DROP, OP_DUP, OP_HASH160, OP_DATA_20,
      OP_ENDIF, OP_EQUALVERIFY, OP_CHECKSIG>>

C22_Number(pop) ==
    \/ pop.data = Nil /\ pop.opcode \in {OP_0} \cup (OP_1..OP_16)
    \/ /\ pop.data # Nil
       /\ Len(pop.data) <= 5
       /\ \/ pop.data = <<>>
          \/ pop.data[Len(pop.data)] \notin {0, 128}
          \/ Len(pop.data) > 1 /\ pop.data[Len(pop.data) - 1] >= 128

C22_Template(pops) ==
    /\ Len(pops) = 20
    /\ \A i \in 1..20 :
          C22_FixedOpcodes[i] # -1 => pops[i].opcode = C22_FixedOpcodes[i]
    /\ C22_Number(pops[3])
    /\ C22_Number(pops[12])

C22_ErrorOnlyUntokenizable ==
    SwapExtracted =>
        LET parsed == parseScript(script)
        IN  /\ ret.err <=> parsed.err
            /\ ret.err => ret.isNil
            /\ (~parsed.err /\ ~C22_Template(parsed.pops)) => ret.isNil

C22_Witness ==
    /\ SwapExtracted
    /\ ~ret.err /\ ret.isNil
    /\ Len(parseScript(script).pops) = 20
    /\ parseScript(script).pops[12].data = <<5, 0>>
    /\ C22_Number(parseScript(script).pops[3])

(***************************************************************************)
(* C23: a script made from a contract by replacing one of its 20 opcodes   *)
(* with another opcode yields no pushes.  This fails for the two operands: *)
(* C23_AnyOpcode is the statement for all 20 operations, C23_FixedOpcode   *)
(* the statement for the 18 operations that are not an operand.  The       *)
(* contract is kept in data and the replaced operation in class.           *)
(***************************************************************************)
C23_Replaced ==
    /\ SwapExtracted
    /\ class \in 1..20
    /\ ~ExtractAtomicSwapDataPushes(0, data).isNil

C23_AnyOpcode == C23_Replaced => ret.isNil

C23_FixedOpcode == (C23_Replaced /\ class \notin {3, 12}) => ret.isNil

C23_Witness ==
    /\ C23_Replaced
    /\ class = 20
    /\ script[Len(script)] = OP_CHECKSIGALT
    /\ ret.isNil /\ ~ret.err

(***************************************************************************)
(* C24: MultisigRedeemScriptFromScriptSig never aborts, and for a script   *)
(* that parses it returns no error and returns data only when the script   *)
(* has a final data push that is a multisignature script; for the empty    *)
(* script and for every other signature script it returns nil.             *)
(***************************************************************************)
C24_NilUnlessMultisig ==
    (pc = "done" /\ fn = "MultisigRedeemScriptFromScriptSig") =>
        /\ ~ret.panic
        /\ ret.err <=> parseScript(script).err
        /\ ret.script # Nil => isMultisigScript(0, ret.script)

(***************************************************************************)
(* C25: UnwindBlock called for a height right after chainSyncer applied    *)
(* the update of that height, with no step of the wallet in between,       *)
(* leaves the utxo map as it was before the update was applied and removes *)
(* the undo entry of the height.                                           *)
(***************************************************************************)
C25_UnwindInvertsIngest ==
    [][\A h \in 1..MaxIngests :
          (hist.justApplied /\ syncer.update.blockHeight = h /\ UnwindBlock(h))
          => (utxos' = hist.before /\ h \notin DOMAIN reorgJournal')]_vars

(***************************************************************************)
(* C26: a transaction CreateTransaction returns spends only utxos that     *)
(* were unlocked and mature at currentHeight, none of them an input of an  *)
(* earlier returned transaction that UnlockOutputs has not been called for *)
(* since; a call that returns an error changes no lock.                    *)
(***************************************************************************)
C26_Locked(u) == {op \in DOMAIN u : u[op].isLocked}

C26_NoDoubleSpend ==
    [][(\E amt \in Amts, feeRate \in FeeRates, order \in visitOrders,
           rpcOk, signOk \in BOOLEAN :
           CreateTransaction(amt, feeRate, order, rpcOk, signOk))
       => /\ hist'.tx.ins \subseteq spendable
          /\ hist'.tx.ins \cap hist.spent = {}
          /\ hist'.tx.err => C26_Locked(utxos') = C26_Locked(utxos)]_vars

(***************************************************************************)
(* C27: when chainSyncer has received a signal the queue chainUpdates is   *)
(* not empty, so reading chainUpdates[0] never panics; no more updates are *)
(* dequeued than were appended; and the k-th update dequeued and applied   *)
(* is the k-th update appended.                                            *)
(***************************************************************************)
C27_QueueNeverEmpty ==
    /\ panicked # "index out of range"
    /\ syncer.pc = "pop" => chainUpdates # <<>>
    /\ hist.dequeued <= hist.appended
    /\ hist.applied <= hist.dequeued
    /\ syncer.pc = "apply" => syncer.update.seq = hist.dequeued
    /\ \A i \in DOMAIN chainUpdates : chainUpdates[i].seq = hist.dequeued + i

C27_Witness ==
    /\ syncer.pc = "apply"
    /\ syncer.update.seq = 1
    /\ Len(chainUpdates) = 1
    /\ ingesting # {}
    /\ hist.appended = 2

(***************************************************************************)
(* C28: UnwindBlock called for a height whose IngestBlock has returned     *)
(* finds the undo entry of the height (it does not dereference nil), and   *)
(* no update of that height is applied after the unwind.                   *)
(***************************************************************************)
C28_UndoEntryPresent ==
    /\ panicked # "nil undo entry"
    /\ ~hist.staleApplied

(***************************************************************************)
(* C29: a version 0 script matches at most one of the eight matchers of    *)
(* typeOfScript that read the bytes and of the three that read the decoded *)
(* operations (stake generation, revocation, change), so the class         *)
(* GetScriptClass returns is the class of the one matcher that holds,      *)
(* whatever the order of the checks.                                       *)
(***************************************************************************)
C29_StakeChecks(s) ==
    LET parsed == parseScript(s)
    IN  IF parsed.err THEN <<>>
        ELSE << <<isStakeGen(parsed.pops), StakeGenTy>>,
                <<isStakeRevocation(parsed.pops), StakeRevocationTy>>,
                <<isSStxChange(parsed.pops), StakeSubChangeTy>> >>

C29_Classes(s) ==
    {c[2] : c \in {d \in Range(C1_Checks(s)) \cup Range(C29_StakeChecks(s)) : d[1]}}

C29_MutuallyExclusive ==
    (Classified /\ version = 0) =>
        /\ Cardinality(C1_Matching(script)) <= 1
        /\ Cardinality(C29_Classes(script)) <= 1
        /\ C29_Classes(script) # {} => C29_Classes(script) = {ret}
        /\ C29_Classes(script) = {} => ret = NonStandardTy

C29_Witness ==
    /\ Classified /\ version = 0
    /\ Len(script) > 0
    /\ script[1] = OP_SSTX
    /\ C29_Classes(script) = {StakeSubmissionTy}
    /\ ret = StakeSubmissionTy

(***************************************************************************)
(* C30: the stdscript matchers agree with the txscript matchers on every   *)
(* byte string.  ExtractPubKeyV0 returns what extractPubKey returns;       *)
(* ExtractPubKeyAltDetailsV0 returns the key and signature type that       *)
(* extractPubKeyAltDetails returns, a key exactly for the two forms        *)
(* C30_Ed25519Form and C30_SchnorrForm; DetermineScriptTypeV0 returns the  *)
(* ECDSA type exactly when typeOfScript returns PubKeyTy, the Ed25519 or   *)
(* Schnorr type exactly when typeOfScript returns PubkeyAltTy with that    *)
(* signature type, and STNonStandard for every other script.               *)
(***************************************************************************)
C30_Ed25519Form(s) ==
    /\ Len(s) = 35
    /\ s[1] = OP_DATA_32
    /\ s[34] = OP_1 - 1 + STEd25519
    /\ s[35] = OP_CHECKSIGALT

C30_SchnorrForm(s) ==
    /\ Len(s) = 36
    /\ s[1] = OP_DATA_33
    /\ s[2] \in {2, 3}
    /\ s[35] = OP_1 - 1 + STSchnorrSecp256k1
    /\ s[36] = OP_CHECKSIGALT

C30_AltType(s, sigType) ==
    /\ typeOfScript(0, s) = PubkeyAltTy
    /\ extractPubKeyAltDetails(s).sigType = sigType

C30_MatchersAgree ==
    pc = "done" =>
        /\ fn = "ExtractPubKeyV0" => ret = extractPubKey(script)
        /\ fn = "ExtractPubKeyAltDetailsV0" =>
              /\ ret = extractPubKeyAltDetails(script)
              /\ C30_Ed25519Form(script) <=>
                    ret.pk # Nil /\ ret.sigType = STEd25519
              /\ C30_Ed25519Form(script) => ret.pk = Slice(script, 1, 33)
              /\ C30_SchnorrForm(script) <=>
                    ret.pk # Nil /\ ret.sigType = STSchnorrSecp256k1
              /\ C30_SchnorrForm(script) => ret.pk = Slice(script, 1, 34)
              /\ ~C30_Ed25519Form(script) /\ ~C30_SchnorrForm(script) =>
                    ret = [pk |-> Nil, sigType |-> 0]
        /\ fn = "DetermineScriptTypeV0" =>
              /\ ret = STPubKeyEcdsaSecp256k1 <=>
                    typeOfScript(0, script) = PubKeyTy
              /\ ret = STPubKeyEd25519 <=> C30_AltType(script, STEd25519)
              /\ ret = STPubKeySchnorrSecp256k1 <=>
                    C30_AltType(script, STSchnorrSecp256k1)
              /\ ret = STNonStandard <=>
                    typeOfScript(0, script) \notin {PubKeyTy, PubkeyAltTy}

\* A script whose 33-byte key is strictly encoded is given the Schnorr
\* type, and one whose key starts with another byte is refused.
C30_Witness ==
    /\ pc = "done"
    /\ fn = "DetermineScriptTypeV0"
    /\ ret = STPubKeySchnorrSecp256k1
    /\ C30_SchnorrForm(script)
=============================================================================
